---------------------------- MODULE Spec2Model ----------------------------
(***************************************************************************)
(* A model of server.js: the embedding cache that initializeDocuments      *)
(* loads or builds at startup, the /generate request handler that ranks    *)
(* the cached documents against an embedded prompt, the pure ranking       *)
(* functions cosineSimilarity and getTopKDocuments, and loadDocuments over *)
(* the contents of its five source files.                                  *)
(*                                                                         *)
(* JavaScript values that can be of more than one type are tagged records  *)
(* [t |-> <type>, v |-> <payload>].  Numbers are integers; the vectors     *)
(* the model draws have an integer Euclidean norm, so Math.sqrt and the    *)
(* division of cosineSimilarity are exact on them and a score is the       *)
(* rational num/den.                                                       *)
(***************************************************************************)
EXTENDS Integers, Sequences, FiniteSets, TLC

(***************************************************************************)
(* Bounds of the model.                                                    *)
(***************************************************************************)
MaxCorpus == 3        \* longest corpus handed to getTopKDocuments in SpecRank
MaxK == 4             \* largest k handed to getTopKDocuments in SpecRank
MaxBatches == 3       \* most embed batches a corpus build needs
MaxCached == 2        \* most records of a cache file found at startup
MaxRequests == 2      \* /generate requests served in one run
MaxBatchSize == 3     \* largest batchSize handed to embedDocumentsInBatches alone
MaxRecords == 2       \* most records of one source file in SpecLoad

(***************************************************************************)
(* Constants of the program.                                               *)
(***************************************************************************)
BatchSize == 96       \* embedDocumentsInBatches(documents, batchSize = 96)
TopK == 10            \* getTopKDocuments(queryEmbedding, cachedDocuments, 10)
SleepMs == 10000      \* await sleep(10000)

(***************************************************************************)
(* JavaScript values.                                                      *)
(***************************************************************************)
JsUndefined == [t |-> "undefined", v |-> <<>>]
JsNull == [t |-> "null", v |-> <<>>]
JsArray(s) == [t |-> "array", v |-> s]
JsString(s) == [t |-> "string", v |-> s]
JsNaN == [nan |-> TRUE, num |-> 0, den |-> 1]
JsNumber(n, d) == [nan |-> FALSE, num |-> n, den |-> d]
Threw == [t |-> "throw", v |-> <<>>]
Returned(x) == [t |-> "return", v |-> x]

Min(a, b) == IF a <= b THEN a ELSE b
Max(a, b) == IF a >= b THEN a ELSE b

\* Math.sqrt on the perfect squares the model's vectors produce.
Sqrt(n) == CHOOSE r \in 0..n : r * r = n

RECURSIVE SumSquares(_)
SumSquares(vec) ==
  IF vec = <<>> THEN 0 ELSE Head(vec) * Head(vec) + SumSquares(Tail(vec))

\* vecA.reduce((sum, a, idx) => sum + a * vecB[idx], 0): vecB[idx] is undefined
\* past the end of vecB, and a * undefined is NaN, which the sum keeps.
RECURSIVE DotProduct(_, _, _)
DotProduct(vecA, vecB, idx) ==
  IF idx > Len(vecA) THEN JsNumber(0, 1)
  ELSE IF idx > Len(vecB) THEN JsNaN
  ELSE LET rest == DotProduct(vecA, vecB, idx + 1)
       IN  IF rest.nan THEN JsNaN
           ELSE JsNumber(vecA[idx] * vecB[idx] + rest.num, 1)

\* cosineSimilarity(vecA, vecB), vecA an array and vecB a tagged value: reading
\* vecB[idx] or vecB.reduce of undefined or null throws a TypeError; 0 / 0 is NaN.
cosineSimilarity(vecA, vecB) ==
  IF vecB.t # "array" THEN Threw
  ELSE LET dotProduct == DotProduct(vecA, vecB.v, 1)
           magA == Sqrt(SumSquares(vecA))
           magB == Sqrt(SumSquares(vecB.v))
       IN  Returned(IF dotProduct.nan \/ magA * magB = 0 THEN JsNaN
                    ELSE JsNumber(dotProduct.num, magA * magB))

\* (a, b) => b.score - a.score, as Array.prototype.sort reads it: a NaN result
\* counts as +0.  The sign of the difference of two rationals with positive
\* denominators.
Sign(n) == IF n < 0 THEN -1 ELSE IF n > 0 THEN 1 ELSE 0
CompareScores(a, b) ==
  IF a.score.nan \/ b.score.nan THEN 0
  ELSE Sign(b.score.num * a.score.den - a.score.num * b.score.den)

(***************************************************************************)
(* Array.prototype.sort as V8 runs it (TimSort).  The array is cut into    *)
(* runs: a run is the ordered stretch found at its start (reversed when    *)
(* strictly descending), extended by binary insertion to the minimal run   *)
(* length, which is the whole array below 64 elements.  The runs are       *)
(* merged from a stack, with galloping.  With a consistent comparator the  *)
(* result is the stable sort; with an inconsistent one (NaN scores) it is  *)
(* the order these steps leave.  Positions count from 0, as in V8.         *)
(***************************************************************************)
kMinGallopWins == 7

At(array, idx) == array[idx + 1]
Store(array, idx, value) == [array EXCEPT ![idx + 1] = value]
\* Copy length elements of source from srcPos on to target from dstPos on
\* (the two may be one array and the ranges may overlap).
Copy(source, srcPos, target, dstPos, length) ==
  [j \in 1..Len(target) |->
     IF j > dstPos /\ j <= dstPos + length
     THEN source[srcPos + j - dstPos] ELSE target[j]] \o <<>>
ReverseRange(array, from, to) ==
  [j \in 1..Len(array) |->
     IF j > from /\ j <= to THEN array[from + to + 1 - j] ELSE array[j]] \o <<>>

\* ComputeMinRunLength: n halved until it is below 64, plus 1 if a bit was
\* shifted out.
RECURSIVE MinRunFrom(_, _)
MinRunFrom(n, r) ==
  IF n >= 64 THEN MinRunFrom(n \div 2, Max(r, n % 2)) ELSE n + r
ComputeMinRunLength(n) == MinRunFrom(n, 0)

\* CountAndMakeRun: the length of the run that starts at lowArg: it ends
\* before the first element that breaks the order of the first two.
RunIsDescending(array, lowArg) ==
  CompareScores(At(array, lowArg + 1), At(array, lowArg)) < 0
RunLength(array, lowArg, high) ==
  IF lowArg + 1 = high THEN 1
  ELSE LET isDescending == RunIsDescending(array, lowArg)
           breaks == {idx \in (lowArg + 2)..(high - 1) :
                        LET order == CompareScores(At(array, idx), At(array, idx - 1))
                        IN  (isDescending /\ order >= 0) \/ (~isDescending /\ order < 0)}
       IN  IF breaks = {} THEN high - lowArg
           ELSE (CHOOSE idx \in breaks : \A other \in breaks : idx <= other) - lowArg
MakeRun(array, lowArg, runLength) ==
  IF runLength > 1 /\ RunIsDescending(array, lowArg)
  THEN ReverseRange(array, lowArg, lowArg + runLength)
  ELSE array

\* The binary search of BinaryInsertionSort for pivot's place in
\* array[left..right-1].
RECURSIVE InsertionPoint(_, _, _, _)
InsertionPoint(array, pivot, left, right) ==
  IF left >= right THEN left
  ELSE LET mid == left + ((right - left) \div 2)
       IN  IF CompareScores(pivot, At(array, mid)) < 0
           THEN InsertionPoint(array, pivot, left, mid)
           ELSE InsertionPoint(array, pivot, mid + 1, right)

\* One step of BinaryInsertionSort: array[start] moves to place left of the
\* sorted stretch that begins at low.
MoveTo(array, start, left) ==
  SubSeq(array, 1, left) \o <<At(array, start)>> \o SubSeq(array, left + 1, start)
    \o SubSeq(array, start + 2, Len(array))
InsertElement(array, low, start) ==
  MoveTo(array, start, InsertionPoint(array, At(array, start), low, start))

\* BinaryInsertionSort(low, start, high) places the elements start..high-1 one
\* after the other, in that order (the range is halved, and the array read
\* first, only to keep the evaluation shallow).
RECURSIVE BinaryInsertionSort(_, _, _, _)
BinaryInsertionSort(array, low, start, high) ==
  IF Len(array) < 2 \/ start >= high THEN array
  ELSE IF start + 1 = high
  THEN IF start = low THEN array ELSE InsertElement(array, low, start)
  ELSE BinaryInsertionSort(
         BinaryInsertionSort(array, low, start, (start + high) \div 2),
         low, (start + high) \div 2, high)

\* Whether the element at idx is before the key (keyFirst false, as GallopLeft
\* compares) or the key before the element (keyFirst true, as GallopRight does).
Before(array, key, idx, keyFirst) ==
  IF keyFirst THEN CompareScores(key, At(array, idx)) < 0
  ELSE CompareScores(At(array, idx), key) < 0

\* The exponential search of a gallop: from origin in the given direction,
\* the offset doubles (plus one) while the comparison keeps the value
\* whileBefore and the offset is below maxOfs.  <<lastOfs, offset>>.
RECURSIVE GallopTo(_, _, _, _, _, _, _, _, _)
GallopTo(array, key, keyFirst, origin, direction, whileBefore, maxOfs, lastOfs, offset) ==
  IF offset < maxOfs
       /\ Before(array, key, origin + direction * offset, keyFirst) = whileBefore
  THEN GallopTo(array, key, keyFirst, origin, direction, whileBefore, maxOfs,
                offset, 2 * offset + 1)
  ELSE <<lastOfs, Min(offset, maxOfs)>>

\* The binary search that ends a gallop, between lastOfs and offset.
RECURSIVE GallopSearch(_, _, _, _, _, _)
GallopSearch(array, key, keyFirst, base, lastOfs, offset) ==
  IF lastOfs >= offset THEN offset
  ELSE LET m == lastOfs + ((offset - lastOfs) \div 2)
       IN  IF keyFirst
           THEN IF Before(array, key, base + m, TRUE)
                THEN GallopSearch(array, key, keyFirst, base, lastOfs, m)
                ELSE GallopSearch(array, key, keyFirst, base, m + 1, offset)
           ELSE IF Before(array, key, base + m, FALSE)
                THEN GallopSearch(array, key, keyFirst, base, m + 1, offset)
                ELSE GallopSearch(array, key, keyFirst, base, lastOfs, m)

\* GallopLeft: where key belongs in the run of the given base and length,
\* left of any equal element, searching from hint.
GallopLeftFrom(array, key, base, hint, up, found) ==
  GallopSearch(array, key, FALSE, base,
               (IF up THEN found[1] + hint ELSE hint - found[2]) + 1,
               IF up THEN found[2] + hint ELSE hint - found[1])
GallopLeft(array, key, base, length, hint) ==
  IF Before(array, key, base + hint, FALSE)
  THEN GallopLeftFrom(array, key, base, hint, TRUE,
         GallopTo(array, key, FALSE, base + hint, 1, TRUE, length - hint, 0, 1))
  ELSE GallopLeftFrom(array, key, base, hint, FALSE,
         GallopTo(array, key, FALSE, base + hint, -1, FALSE, hint + 1, 0, 1))

\* GallopRight: the same, right of any equal element.
GallopRightFrom(array, key, base, hint, down, found) ==
  GallopSearch(array, key, TRUE, base,
               (IF down THEN hint - found[2] ELSE found[1] + hint) + 1,
               IF down THEN hint - found[1] ELSE found[2] + hint)
GallopRight(array, key, base, length, hint) ==
  IF Before(array, key, base + hint, TRUE)
  THEN GallopRightFrom(array, key, base, hint, TRUE,
         GallopTo(array, key, TRUE, base + hint, -1, TRUE, hint + 1, 0, 1))
  ELSE GallopRightFrom(array, key, base, hint, FALSE,
         GallopTo(array, key, TRUE, base + hint, 1, FALSE, length - hint, 0, 1))

\* A merge in progress: the work array a, the copy temp of the shorter run,
\* the cursors, what is left of run A and run B, the wins in a row of each,
\* and where the merge is: taking one element at a time ("pairs"),
\* galloping, or at one of the labels that end it.
MergeEnded(m) == m.at \in {"Succeed", "CopyA", "CopyB"}
MergeGoto(m, label) == [m EXCEPT !.at = label]
StartGallop(m) == [m EXCEPT !.at = "gallop", !.minGallop = @ + 1]
\* The test of the galloping loop after a turn of it; leaving it costs one
\* more win to enter it again.
EndGallop(m) ==
  IF m.nofWinsA >= kMinGallopWins \/ m.nofWinsB >= kMinGallopWins THEN m
  ELSE [m EXCEPT !.at = "pairs", !.minGallop = @ + 1,
                 !.nofWinsA = 0, !.nofWinsB = 0]

\* MergeLow: run A is copied to temp and the runs are merged from the left.
LowTakeB(m) ==
  [m EXCEPT !.a = Store(m.a, m.dest, At(m.a, m.cursor)),
            !.dest = @ + 1, !.cursor = @ + 1, !.lengthB = @ - 1]
LowTakeA(m) ==
  [m EXCEPT !.a = Store(m.a, m.dest, At(m.temp, m.cursorTemp)),
            !.dest = @ + 1, !.cursorTemp = @ + 1, !.lengthA = @ - 1]
LowAfterPairB(m) ==
  IF m.lengthB = 0 THEN MergeGoto(m, "Succeed")
  ELSE IF m.nofWinsB >= m.minGallop THEN StartGallop(m) ELSE m
LowAfterPairA(m) ==
  IF m.lengthA = 1 THEN MergeGoto(m, "CopyB")
  ELSE IF m.nofWinsA >= m.minGallop THEN StartGallop(m) ELSE m
MergeLowPair(m) ==
  IF CompareScores(At(m.a, m.cursor), At(m.temp, m.cursorTemp)) < 0
  THEN LowAfterPairB([LowTakeB(m) EXCEPT !.nofWinsB = @ + 1, !.nofWinsA = 0])
  ELSE LowAfterPairA([LowTakeA(m) EXCEPT !.nofWinsA = @ + 1, !.nofWinsB = 0])
LowGallopEnd(m) ==
  IF m.lengthA = 1 THEN MergeGoto(m, "CopyB") ELSE EndGallop(m)
LowGallopMovedB(m) ==
  IF m.nofWinsB > 0 /\ m.lengthB = 0 THEN MergeGoto(m, "Succeed")
  ELSE LowGallopEnd(LowTakeA(m))
LowGallopB(m, nofWinsB) ==
  LowGallopMovedB(
    [m EXCEPT !.a = Copy(m.a, m.cursor, m.a, m.dest, nofWinsB),
              !.dest = @ + nofWinsB, !.cursor = @ + nofWinsB,
              !.lengthB = @ - nofWinsB, !.nofWinsB = nofWinsB])
LowGallopTookB(m) ==
  IF m.lengthB = 0 THEN MergeGoto(m, "Succeed")
  ELSE LowGallopB(m, GallopLeft(m.a, At(m.temp, m.cursorTemp), m.cursor, m.lengthB, 0))
LowGallopMovedA(m) ==
  IF m.nofWinsA > 0 /\ m.lengthA = 1 THEN MergeGoto(m, "CopyB")
  ELSE IF m.nofWinsA > 0 /\ m.lengthA = 0 THEN MergeGoto(m, "Succeed")
  ELSE LowGallopTookB(LowTakeB(m))
LowGallopA(m, nofWinsA) ==
  LowGallopMovedA(
    [m EXCEPT !.a = Copy(m.temp, m.cursorTemp, m.a, m.dest, nofWinsA),
              !.dest = @ + nofWinsA, !.cursorTemp = @ + nofWinsA,
              !.lengthA = @ - nofWinsA, !.nofWinsA = nofWinsA])
MergeLowGallop(m) ==
  LowGallopA([m EXCEPT !.minGallop = Max(1, @ - 1)],
             GallopRight(m.temp, At(m.a, m.cursor), m.cursorTemp, m.lengthA, 0))
\* The loops of MergeLow, at most the given number of turns (each turn moves
\* an element; the count is halved only to keep the evaluation shallow).
RECURSIVE MergeLowTurns(_, _)
MergeLowTurns(m, turns) ==
  IF turns = 0 \/ MergeEnded(m) THEN m
  ELSE IF turns = 1
  THEN IF m.at = "pairs" THEN MergeLowPair(m) ELSE MergeLowGallop(m)
  ELSE MergeLowTurns(MergeLowTurns(m, turns \div 2), turns - (turns \div 2))
MergeLowEnd(sortState, m) ==
  [sortState EXCEPT
     !.minGallop = m.minGallop,
     !.a = IF m.at = "Succeed"
           THEN Copy(m.temp, m.cursorTemp, m.a, m.dest, m.lengthA)
           ELSE Store(Copy(m.a, m.cursor, m.a, m.dest, m.lengthB),
                      m.dest + m.lengthB, At(m.temp, m.cursorTemp))]
MergeLow(sortState, baseA, lengthA, baseB, lengthB) ==
  MergeLowEnd(sortState,
    MergeLowTurns(
      [a |-> Store(sortState.a, baseA, At(sortState.a, baseB)),
       temp |-> SubSeq(sortState.a, baseA + 1, baseA + lengthA),
       base |-> baseA, dest |-> baseA + 1, cursorTemp |-> 0, cursor |-> baseB + 1,
       lengthA |-> lengthA, lengthB |-> lengthB - 1,
       nofWinsA |-> 0, nofWinsB |-> 0, minGallop |-> sortState.minGallop,
       at |-> IF lengthB = 1 THEN "Succeed"
              ELSE IF lengthA = 1 THEN "CopyB" ELSE "pairs"],
      lengthA + lengthB))

\* MergeHigh: run B is copied to temp and the runs are merged from the right.
HighTakeA(m) ==
  [m EXCEPT !.a = Store(m.a, m.dest, At(m.a, m.cursor)),
            !.dest = @ - 1, !.cursor = @ - 1, !.lengthA = @ - 1]
HighTakeB(m) ==
  [m EXCEPT !.a = Store(m.a, m.dest, At(m.temp, m.cursorTemp)),
            !.dest = @ - 1, !.cursorTemp = @ - 1, !.lengthB = @ - 1]
HighAfterPairA(m) ==
  IF m.lengthA = 0 THEN MergeGoto(m, "Succeed")
  ELSE IF m.nofWinsA >= m.minGallop THEN StartGallop(m) ELSE m
HighAfterPairB(m) ==
  IF m.lengthB = 1 THEN MergeGoto(m, "CopyA")
  ELSE IF m.nofWinsB >= m.minGallop THEN StartGallop(m) ELSE m
MergeHighPair(m) ==
  IF CompareScores(At(m.temp, m.cursorTemp), At(m.a, m.cursor)) < 0
  THEN HighAfterPairA([HighTakeA(m) EXCEPT !.nofWinsA = @ + 1, !.nofWinsB = 0])
  ELSE HighAfterPairB([HighTakeB(m) EXCEPT !.nofWinsB = @ + 1, !.nofWinsA = 0])
HighGallopEnd(m) ==
  IF m.lengthA = 0 THEN MergeGoto(m, "Succeed") ELSE EndGallop(m)
HighGallopMovedB(m) ==
  IF m.nofWinsB > 0 /\ m.lengthB = 1 THEN MergeGoto(m, "CopyA")
  ELSE IF m.nofWinsB > 0 /\ m.lengthB = 0 THEN MergeGoto(m, "Succeed")
  ELSE HighGallopEnd(HighTakeA(m))
HighGallopB(m, nofWinsB) ==
  HighGallopMovedB(
    [m EXCEPT !.a = Copy(m.temp, m.cursorTemp - nofWinsB + 1, m.a,
                         m.dest - nofWinsB + 1, nofWinsB),
              !.dest = @ - nofWinsB, !.cursorTemp = @ - nofWinsB,
              !.lengthB = @ - nofWinsB, !.nofWinsB = nofWinsB])
HighGallopTookB(m) ==
  IF m.lengthB = 1 THEN MergeGoto(m, "CopyA")
  ELSE HighGallopB(m, m.lengthB
         - GallopLeft(m.temp, At(m.a, m.cursor), 0, m.lengthB, m.lengthB - 1))
HighGallopMovedA(m) ==
  IF m.nofWinsA > 0 /\ m.lengthA = 0 THEN MergeGoto(m, "Succeed")
  ELSE HighGallopTookB(HighTakeB(m))
HighGallopA(m, nofWinsA) ==
  HighGallopMovedA(
    [m EXCEPT !.a = Copy(m.a, m.cursor - nofWinsA + 1, m.a,
                         m.dest - nofWinsA + 1, nofWinsA),
              !.dest = @ - nofWinsA, !.cursor = @ - nofWinsA,
              !.lengthA = @ - nofWinsA, !.nofWinsA = nofWinsA])
MergeHighGallop(m) ==
  HighGallopA([m EXCEPT !.minGallop = Max(1, @ - 1)],
              m.lengthA - GallopRight(m.a, At(m.temp, m.cursorTemp), m.base,
                                      m.lengthA, m.lengthA - 1))
RECURSIVE MergeHighTurns(_, _)
MergeHighTurns(m, turns) ==
  IF turns = 0 \/ MergeEnded(m) THEN m
  ELSE IF turns = 1
  THEN IF m.at = "pairs" THEN MergeHighPair(m) ELSE MergeHighGallop(m)
  ELSE MergeHighTurns(MergeHighTurns(m, turns \div 2), turns - (turns \div 2))
MergeHighEnd(sortState, m) ==
  [sortState EXCEPT
     !.minGallop = m.minGallop,
     !.a = IF m.at = "Succeed"
           THEN Copy(m.temp, 0, m.a, m.dest - (m.lengthB - 1), m.lengthB)
           ELSE Store(Copy(m.a, m.cursor - m.lengthA + 1, m.a,
                           m.dest - m.lengthA + 1, m.lengthA),
                      m.dest - m.lengthA, At(m.temp, m.cursorTemp))]
MergeHigh(sortState, baseA, lengthA, baseB, lengthB) ==
  MergeHighEnd(sortState,
    MergeHighTurns(
      [a |-> Store(sortState.a, baseB + lengthB - 1,
                   At(sortState.a, baseA + lengthA - 1)),
       temp |-> SubSeq(sortState.a, baseB + 1, baseB + lengthB),
       base |-> baseA, dest |-> baseB + lengthB - 2, cursorTemp |-> lengthB - 1,
       cursor |-> baseA + lengthA - 2,
       lengthA |-> lengthA - 1, lengthB |-> lengthB,
       nofWinsA |-> 0, nofWinsB |-> 0, minGallop |-> sortState.minGallop,
       at |-> IF lengthA = 1 THEN "Succeed"
              ELSE IF lengthB = 1 THEN "CopyA" ELSE "pairs"],
      lengthA + lengthB))

\* MergeAt(i): the runs i and i + 1 of the stack become one; the elements of A
\* that are already in place before B and those of B in place after A are
\* left where they are, and the rest is merged from the side of the shorter.
MergeTrimmed(sortState, baseA, lengthA, baseB, lengthB) ==
  IF lengthB = 0 THEN sortState
  ELSE IF lengthA <= lengthB THEN MergeLow(sortState, baseA, lengthA, baseB, lengthB)
  ELSE MergeHigh(sortState, baseA, lengthA, baseB, lengthB)
MergeFrom(sortState, runA, runB, k) ==
  IF runA.length - k = 0 THEN sortState
  ELSE MergeTrimmed(sortState, runA.base + k, runA.length - k, runB.base,
         GallopLeft(sortState.a, At(sortState.a, runA.base + runA.length - 1),
                    runB.base, runB.length, runB.length - 1))
MergeAt(sortState, i) ==
  MergeFrom(
    [sortState EXCEPT
       !.runs = SubSeq(@, 1, i)
                  \o <<[base |-> @[i + 1].base,
                        length |-> @[i + 1].length + @[i + 2].length]>>
                  \o SubSeq(@, i + 3, Len(@))],
    sortState.runs[i + 1], sortState.runs[i + 2],
    GallopRight(sortState.a, At(sortState.a, sortState.runs[i + 2].base),
                sortState.runs[i + 1].base, sortState.runs[i + 1].length, 0))

PendingRunLength(runs, n) == runs[n + 1].length
RunInvariantEstablished(runs, n) ==
  n < 2 \/ PendingRunLength(runs, n - 2)
             > PendingRunLength(runs, n - 1) + PendingRunLength(runs, n)
\* MergeCollapse: runs are merged until the lengths on the stack decrease
\* fast enough from the bottom to the top.
RECURSIVE MergeCollapse(_)
MergeCollapse(sortState) ==
  IF Len(sortState.runs) <= 1 THEN sortState
  ELSE LET n == Len(sortState.runs) - 2
       IN  IF \/ ~RunInvariantEstablished(sortState.runs, n + 1)
              \/ ~RunInvariantEstablished(sortState.runs, n)
           THEN MergeCollapse(MergeAt(sortState,
                  IF PendingRunLength(sortState.runs, n - 1)
                       < PendingRunLength(sortState.runs, n + 1)
                  THEN n - 1 ELSE n))
           ELSE IF PendingRunLength(sortState.runs, n)
                     <= PendingRunLength(sortState.runs, n + 1)
           THEN MergeCollapse(MergeAt(sortState, n))
           ELSE sortState
\* MergeForceCollapse: the runs left at the end are merged into one.
RECURSIVE MergeForceCollapse(_)
MergeForceCollapse(sortState) ==
  IF Len(sortState.runs) <= 1 THEN sortState
  ELSE LET n == Len(sortState.runs) - 2
       IN  MergeForceCollapse(MergeAt(sortState,
             IF n > 0 /\ PendingRunLength(sortState.runs, n - 1)
                           < PendingRunLength(sortState.runs, n + 1)
             THEN n - 1 ELSE n))

\* One turn of the loop of ArrayTimSortImpl: the run at low, of the length
\* counted or, when that is short, sorted up to the minimal run length, is
\* pushed and the stack collapsed.
PushRun(sortState, array, low, runLength) ==
  [sortState EXCEPT !.a = array,
                    !.runs = Append(@, [base |-> low, length |-> runLength])]
SortedRun(array, low, remaining, minRunLength, runLength) ==
  IF runLength < minRunLength
  THEN BinaryInsertionSort(MakeRun(array, low, runLength), low, low + runLength,
                           low + Min(minRunLength, remaining))
  ELSE MakeRun(array, low, runLength)
ForcedRunLength(remaining, minRunLength, runLength) ==
  IF runLength < minRunLength THEN Min(minRunLength, remaining) ELSE runLength
RECURSIVE SortRuns(_, _, _, _)
NextRun(sortState, low, remaining, minRunLength, runLength) ==
  SortRuns(
    MergeCollapse(
      PushRun(sortState,
              SortedRun(sortState.a, low, remaining, minRunLength, runLength),
              low, ForcedRunLength(remaining, minRunLength, runLength))),
    low + ForcedRunLength(remaining, minRunLength, runLength),
    remaining - ForcedRunLength(remaining, minRunLength, runLength),
    minRunLength)
SortRuns(sortState, low, remaining, minRunLength) ==
  IF remaining = 0 THEN sortState
  ELSE NextRun(sortState, low, remaining, minRunLength,
               RunLength(sortState.a, low, low + remaining))

ArrayTimSortImpl(arr) ==
  MergeForceCollapse(
    SortRuns([a |-> arr, runs |-> <<>>, minGallop |-> kMinGallopWins],
             0, Len(arr), ComputeMinRunLength(Len(arr)))).a

ArraySort(arr) == IF Len(arr) < 2 THEN arr ELSE ArrayTimSortImpl(arr)

\* arr.slice(0, k): a negative k counts from the end.
Slice(arr, k) ==
  SubSeq(arr, 1, IF k < 0 THEN Max(Len(arr) + k, 0) ELSE Min(k, Len(arr)))

\* documents.map(doc => ({ doc, score: cosineSimilarity(queryEmbedding, doc.embedding) }))
\* with each score still tagged: a throw of cosineSimilarity ends the map.
Scores(queryEmbedding, docs) ==
  [j \in 1..Len(docs) |-> cosineSimilarity(queryEmbedding, docs[j].embedding)] \o <<>>
Similarities(docs, scores) ==
  [j \in 1..Len(docs) |-> [doc |-> docs[j], score |-> scores[j].v]] \o <<>>
\* .map(item => item.doc)
ItemDocuments(items) == [j \in 1..Len(items) |-> items[j].doc] \o <<>>

\* similarities.sort(...); similarities.slice(0, k).map(item => item.doc), unless
\* the map of the scores threw.
RankByScore(docs, scores, k) ==
  IF \E j \in 1..Len(scores) : scores[j].t = "throw" THEN Threw
  ELSE Returned(ItemDocuments(Slice(ArraySort(Similarities(docs, scores)), k)))

\* getTopKDocuments(queryEmbedding, documents, k): documents is a tagged value
\* (documents.map of null throws).
getTopKDocuments(queryEmbedding, documents, k) ==
  IF documents.t # "array" THEN Threw
  ELSE RankByScore(documents.v, Scores(queryEmbedding, documents.v), k)

(***************************************************************************)
(* Documents, the embedding provider and the cache file.                   *)
(***************************************************************************)
Digit(d) ==
  CASE d = 0 -> "0" [] d = 1 -> "1" [] d = 2 -> "2" [] d = 3 -> "3"
    [] d = 4 -> "4" [] d = 5 -> "5" [] d = 6 -> "6" [] d = 7 -> "7"
    [] d = 8 -> "8" [] d = 9 -> "9"

RECURSIVE NatString(_)
NatString(n) ==
  IF n < 10 THEN Digit(n) ELSE NatString(n \div 10) \o Digit(n % 10)
\* The decimal form of an integer, as String(n) gives it.
IntString(n) == IF n < 0 THEN "-" \o NatString(-n) ELSE NatString(n)

(***************************************************************************)
(* loadDocuments: the five source files, read in the order of the list,    *)
(* each inside its own try.  A file is absent, unparsable or holds a JSON  *)
(* value; a JSON object is a record of its keys, a key it lacks reading as *)
(* undefined.                                                              *)
(***************************************************************************)
JsonNumber(n) == [t |-> "number", v |-> n]
JsObject(fields) == [t |-> "object", v |-> fields]
\* An object read only through Object.values: its values in key order.
JsDictionary(values) == [t |-> "object", v |-> values]

\* Reading a property of undefined or null throws; ?. yields undefined instead.
Nullish(value) == value.t \in {"undefined", "null"}
\* value.key of a value that is neither undefined nor null: the key's value when
\* the value is an object that has the key, undefined for an object without it
\* and for a number, a string, a boolean or an array.
Prop(value, key) ==
  IF value.t = "object" /\ value.v # <<>> /\ key \in DOMAIN value.v
  THEN value.v[key] ELSE JsUndefined
\* The values JavaScript treats as false: undefined, null, the empty string,
\* the number 0 and false.
ToBooleanFalse(value) ==
  \/ Nullish(value)
  \/ value.t = "string" /\ value.v = ""
  \/ value.t = "number" /\ value.v = 0
  \/ value.t = "boolean" /\ value.v = FALSE
\* value || ''
OrEmpty(value) == IF ToBooleanFalse(value) THEN JsString("") ELSE value

\* ToString(value) throws a TypeError (Cannot convert object to primitive
\* value) on an object that has a key "toString" of its own: the value JSON
\* gives the key is not callable and valueOf yields the object itself.  An
\* array is joined, so it throws when one of its elements does.
RECURSIVE Stringifiable(_)
Stringifiable(value) ==
  CASE value.t = "object" -> Prop(value, "toString").t = "undefined"
    [] value.t = "array" ->
         \A j \in 1..Len(value.v) : Stringifiable(value.v[j])
    [] OTHER -> TRUE
AllStringifiable(values) ==
  \A j \in 1..Len(values) : Stringifiable(values[j])

\* `${value}` of a template literal and the operand of + with a string, for a
\* value ToString does not throw on.
RECURSIVE TemplateString(_)
RECURSIVE Join(_, _)
TemplateString(value) ==
  CASE value.t = "string" -> value.v
    [] value.t = "undefined" -> "undefined"
    [] value.t = "null" -> "null"
    [] value.t = "number" -> IntString(value.v)
    [] value.t = "boolean" -> IF value.v THEN "true" ELSE "false"
    [] value.t = "object" -> "[object Object]"
    [] value.t = "array" -> Join(value.v, ",")

\* array.join(separator): undefined and null elements join as the empty string.
Join(values, separator) ==
  IF values = <<>> THEN ""
  ELSE LET first == IF Nullish(Head(values)) THEN ""
                    ELSE TemplateString(Head(values))
       IN  IF Len(values) = 1 THEN first
           ELSE first \o separator \o Join(Tail(values), separator)

\* The index of the first ">" after position i of the text, 0 when there is none.
ClosingAfter(text, i) ==
  IF \E j \in (i + 1)..Len(text) : SubSeq(text, j, j) = ">"
  THEN CHOOSE j \in (i + 1)..Len(text) :
         /\ SubSeq(text, j, j) = ">"
         /\ \A m \in (i + 1)..(j - 1) : SubSeq(text, m, m) # ">"
  ELSE 0
\* text.replace(/<[^>]+>/g, '') from position i on: a "<", one or more characters
\* other than ">" and the ">" that follows them are left out; any other
\* character is kept.
RECURSIVE StripFrom(_, _)
StripFrom(text, i) ==
  IF i > Len(text) THEN ""
  ELSE IF SubSeq(text, i, i) = "<" /\ ClosingAfter(text, i) > i + 1
  THEN StripFrom(text, ClosingAfter(text, i) + 1)
  ELSE SubSeq(text, i, i) \o StripFrom(text, i + 1)
StripTags(text) == StripFrom(text, 1)

\* documents.push({ id, data: { title, snippet } }): no embedding property yet.
Document(id, title, snippet) ==
  [id |-> JsString(id), data |-> [title |-> title, snippet |-> snippet],
   embedding |-> JsUndefined]

\* tour.details?.map(d => d.body)
DetailsBodies(details) ==
  IF Nullish(details) THEN <<>>
  ELSE [j \in 1..Len(details.v) |-> Prop(details.v[j], "body")] \o <<>>
\* tour.details?.map(d => d.body).join(' ') || ''
DetailsSnippet(details) ==
  IF Nullish(details) THEN "" ELSE Join(DetailsBodies(details), " ")

\* The callback of tour_details.json: tour.details of null, .map of a value that
\* is no array, d.body of a null element and the conversion to a string of a
\* body, the name or the description throw.
TourDetailsDocument(tour) ==
  IF Nullish(tour) THEN Threw
  ELSE IF ~Nullish(Prop(tour, "details")) /\ Prop(tour, "details").t # "array"
       THEN Threw
  ELSE IF /\ ~Nullish(Prop(tour, "details"))
          /\ \E j \in 1..Len(Prop(tour, "details").v) :
                Nullish(Prop(tour, "details").v[j])
       THEN Threw
  ELSE IF ~AllStringifiable(DetailsBodies(Prop(tour, "details"))
                              \o <<Prop(tour, "name"), OrEmpty(Prop(tour, "description"))>>)
       THEN Threw
  ELSE Returned(Document("tour_details_" \o TemplateString(Prop(tour, "name")),
                         Prop(tour, "name"),
                         JsString(TemplateString(OrEmpty(Prop(tour, "description")))
                                    \o " " \o DetailsSnippet(Prop(tour, "details")))))

\* The callback of tours.json.
ToursDocument(tour) ==
  IF Nullish(tour) THEN Threw
  ELSE IF ~Stringifiable(Prop(tour, "name")) THEN Threw
  ELSE Returned(Document("tours_" \o TemplateString(Prop(tour, "name")),
                         Prop(tour, "name"),
                         OrEmpty(Prop(tour, "product_line"))))

\* object?.key
OptionalCommon(name) ==
  IF Nullish(name) THEN JsUndefined ELSE Prop(name, "common")
OptionalOfficial(name) ==
  IF Nullish(name) THEN JsUndefined ELSE Prop(name, "official")
\* value?.[0]: the first element of an array, the first character of a string,
\* the value of the key "0" of an object, undefined where there is none and
\* for any other value.
OptionalFirst(array) ==
  IF array.t = "array" /\ array.v # <<>> THEN array.v[1]
  ELSE IF array.t = "string" /\ array.v # "" THEN JsString(SubSeq(array.v, 1, 1))
  ELSE IF array.t = "object" THEN Prop(array, "0")
  ELSE JsUndefined
\* Object.values(languages || {}): the values of an object, the elements of an
\* array, the characters of a string, nothing for a number or a boolean.
LanguageValues(languages) ==
  IF ToBooleanFalse(languages) THEN <<>>
  ELSE IF languages.t \in {"object", "array"} THEN languages.v
  ELSE IF languages.t = "string"
  THEN [j \in 1..Len(languages.v) |-> JsString(SubSeq(languages.v, j, j))] \o <<>>
  ELSE <<>>
\* Object.values(languages || {}).join(', ')
LanguageList(languages) == Join(LanguageValues(languages), ", ")

\* The callback of rest_countries.json: the conversion to a string of a value
\* the templates render throws.
RestCountriesDocument(country) ==
  IF Nullish(country) THEN Threw
  ELSE IF ~AllStringifiable(
             LanguageValues(Prop(country, "languages"))
               \o <<OptionalCommon(Prop(country, "name")),
                     OptionalOfficial(Prop(country, "name")),
                     OrEmpty(OptionalFirst(Prop(country, "capital"))),
                     Prop(country, "region"), Prop(country, "subregion"),
                     Prop(country, "population"), Prop(country, "area")>>)
       THEN Threw
  ELSE Returned(Document(
         "rest_countries_" \o TemplateString(OptionalCommon(Prop(country, "name"))),
         OrEmpty(OptionalCommon(Prop(country, "name"))),
         JsString("Official Name: "
           \o TemplateString(OptionalOfficial(Prop(country, "name")))
           \o ". Capital: "
           \o TemplateString(OrEmpty(OptionalFirst(Prop(country, "capital"))))
           \o ". Region: " \o TemplateString(Prop(country, "region"))
           \o ". Subregion: " \o TemplateString(Prop(country, "subregion"))
           \o ". Population: " \o TemplateString(Prop(country, "population"))
           \o ". Languages: " \o LanguageList(Prop(country, "languages"))
           \o ". Area: " \o TemplateString(Prop(country, "area")) \o " sq km.")))

\* The callback of unesco_sites.json: .replace of a value that is no string throws.
UnescoSitesDocument(site) ==
  IF Nullish(site) THEN Threw
  ELSE IF /\ ~Nullish(Prop(site, "short_description"))
          /\ Prop(site, "short_description").t # "string"
       THEN Threw
  ELSE IF ~Stringifiable(Prop(site, "site")) THEN Threw
  ELSE Returned(Document(
         "unesco_sites_" \o TemplateString(Prop(site, "site")),
         OrEmpty(Prop(site, "site")),
         IF Nullish(Prop(site, "short_description")) THEN JsString("")
         ELSE OrEmpty(JsString(StripTags(Prop(site, "short_description").v)))))

\* The callback of merged_countries.json.
MergedCountriesDocument(country) ==
  IF Nullish(country) THEN Threw
  ELSE IF ~AllStringifiable(<<Prop(country, "name"), Prop(country, "capital"),
                              Prop(country, "region"), Prop(country, "population"),
                              Prop(country, "language"), Prop(country, "currency")>>)
       THEN Threw
  ELSE Returned(Document(
         "merged_countries_" \o TemplateString(Prop(country, "name")),
         OrEmpty(Prop(country, "name")),
         JsString("Capital: " \o TemplateString(Prop(country, "capital"))
           \o ", Region: " \o TemplateString(Prop(country, "region"))
           \o ", Population: " \o TemplateString(Prop(country, "population"))
           \o ", Language: " \o TemplateString(Prop(country, "language"))
           \o ", Currency: " \o TemplateString(Prop(country, "currency")))))

\* const files = [...]
Files ==
  <<"./documents/tour_details.json", "./documents/tours.json",
    "./documents/rest_countries.json", "./documents/unesco_sites.json",
    "./documents/merged_countries.json">>

\* The branch of the if / else if chain that file.includes(...) selects.
SourceKind(file) ==
  CASE file = "./documents/tour_details.json" -> "tour_details"
    [] file = "./documents/tours.json" -> "tours"
    [] file = "./documents/rest_countries.json" -> "rest_countries"
    [] file = "./documents/unesco_sites.json" -> "unesco_sites"
    [] file = "./documents/merged_countries.json" -> "merged_countries"

RecordDocument(file, record) ==
  CASE SourceKind(file) = "tour_details" -> TourDetailsDocument(record)
    [] SourceKind(file) = "tours" -> ToursDocument(record)
    [] SourceKind(file) = "rest_countries" -> RestCountriesDocument(record)
    [] SourceKind(file) = "unesco_sites" -> UnescoSitesDocument(record)
    [] SourceKind(file) = "merged_countries" -> MergedCountriesDocument(record)

\* The array forEach runs over: json itself, json.query?.row for unesco_sites
\* (no array at all when the chain yields undefined).  .forEach of null or of a
\* value that is no array throws, and so does json.query of null.
SourceRecords(file, json) ==
  IF SourceKind(file) = "unesco_sites"
  THEN IF Nullish(json) THEN Threw
       ELSE IF Nullish(Prop(json, "query")) THEN Returned(<<>>)
       ELSE IF Nullish(Prop(Prop(json, "query"), "row")) THEN Returned(<<>>)
       ELSE IF Prop(Prop(json, "query"), "row").t # "array" THEN Threw
       ELSE Returned(Prop(Prop(json, "query"), "row").v)
  ELSE IF json.t # "array" THEN Threw
  ELSE Returned(json.v)

\* The index of the first record whose callback throws, or one past the last.
FirstThrow(results) ==
  IF \E j \in 1..Len(results) : results[j].t = "throw"
  THEN CHOOSE j \in 1..Len(results) :
         /\ results[j].t = "throw"
         /\ \A m \in 1..(j - 1) : results[m].t # "throw"
  ELSE Len(results) + 1
PushedBeforeThrow(results) ==
  [j \in 1..(FirstThrow(results) - 1) |-> results[j].v] \o <<>>
RecordResults(file, records) ==
  [j \in 1..Len(records) |-> RecordDocument(file, records[j])] \o <<>>

\* One turn of the for loop: the documents pushed for a file before its try
\* block ended, normally or in the catch.
SourceDocuments(file, content) ==
  IF content.t # "json" THEN <<>>
  ELSE IF SourceRecords(file, content.v).t = "throw" THEN <<>>
  ELSE PushedBeforeThrow(RecordResults(file, SourceRecords(file, content.v).v))

\* for (const file of files), from the f-th file on, documents pushed so far.
RECURSIVE LoadFrom(_, _, _)
LoadFrom(contents, f, docs) ==
  IF f > Len(Files) THEN docs
  ELSE LoadFrom(contents, f + 1, docs \o SourceDocuments(Files[f], contents[f]))

\* loadDocuments() over the given contents of the five files.
LoadDocumentsFromFiles(contents) == LoadFrom(contents, 1, <<>>)

\* Sources that hold n records {name: "Tour <j>", product_line: "Line <j>"} in
\* tours.json and no other file.
TourRecord(j) ==
  JsObject([name |-> JsString("Tour " \o NatString(j)),
            product_line |-> JsString("Line " \o NatString(j))])
TourSources(n) ==
  [f \in 1..Len(Files) |->
     IF SourceKind(Files[f]) = "tours"
     THEN [t |-> "json", v |-> JsArray([j \in 1..n |-> TourRecord(j)])]
     ELSE [t |-> "absent", v |-> <<>>]]

\* A value JSON.parse yields that cannot be converted to a string: an object
\* with a key "toString" of its own.
Unprintable == JsObject([toString |-> JsonNumber(1)])
\* Sources whose tours.json holds n records, the last with such a value as its
\* product_line: loadDocuments makes it the snippet as it is.
UnprintableTourRecord(j) ==
  JsObject([name |-> JsString("Tour " \o NatString(j)), product_line |-> Unprintable])
UnprintableSources(n) ==
  [f \in 1..Len(Files) |->
     IF SourceKind(Files[f]) = "tours"
     THEN [t |-> "json",
           v |-> JsArray([j \in 1..n |->
                   IF j = n THEN UnprintableTourRecord(j) ELSE TourRecord(j)])]
     ELSE [t |-> "absent", v |-> <<>>]]
\* The sizes of such a corpus: its last document in the first batch, and in
\* the second.
UnprintableSizes == {1, BatchSize + 1}

\* The j-th document loadDocuments pushes for a tours.json of records
\* {name: "Tour <j>", product_line: "Line <j>"}: it has no embedding property yet.
TourDocument(j) ==
  [id |-> JsString("tours_" \o "Tour " \o NatString(j)),
   data |-> [title |-> JsString("Tour " \o NatString(j)),
             snippet |-> JsString("Line " \o NatString(j))],
   embedding |-> JsUndefined]

\* What loadDocuments returns when the sources hold n records.
loadDocuments(n) == LoadDocumentsFromFiles(TourSources(n))

\* The text embedDocumentsInBatches and the chat call make of a document,
\* `${doc.data.title}. ${doc.data.snippet}`, and whether making it throws.
DocumentText(doc) ==
  TemplateString(doc.data.title) \o ". " \o TemplateString(doc.data.snippet)
DocumentTextThrows(doc) ==
  ~Stringifiable(doc.data.title) \/ ~Stringifiable(doc.data.snippet)
\* .map(doc => `${doc.data.title}. ${doc.data.snippet}`) over the documents throws.
TextsThrow(docs) == \E j \in 1..Len(docs) : DocumentTextThrows(docs[j])

\* The sizes of corpus the sources may hold: empty, one document, one full
\* batch, one document more than a batch, and one document more than
\* MaxBatches - 1 full batches.
CorpusSizes ==
  {0, 1, BatchSize, BatchSize + 1, (MaxBatches - 1) * BatchSize + 1}

MaxDocuments == MaxBatches * BatchSize

\* The embedding model (embed-multilingual-v3.0) as a fixed function of the
\* text: vectors of dimension 2 with an integer norm, none of them zero.
ModelVectors == << <<1, 0>>, <<0, 1>>, <<3, 4>>, <<-1, 0>>, <<4, 3>> >>
KnownTexts == [j \in 1..MaxDocuments |-> DocumentText(TourDocument(j))]
ProviderTable ==
  [text \in {KnownTexts[j] : j \in 1..MaxDocuments} |->
     LET j == CHOOSE j \in 1..MaxDocuments : KnownTexts[j] = text
     IN  ModelVectors[(j % Len(ModelVectors)) + 1]]
ProviderEmbedding(text) == ProviderTable[text]

\* cohere.embed({texts}) when it succeeds: response.embeddings, one per text.
EmbedResponse(texts) == [j \in 1..Len(texts) |-> ProviderEmbedding(texts[j])]

\* The slice taken one document late, as documents.slice(i + 1, i + batchSize + 1)
\* would (a mutant of Batch).
BatchFromNext(docs, i, batchSize) ==
  SubSeq(docs, i + 2, Min(i + batchSize + 1, Len(docs)))

\* documents.slice(i, i + batchSize), i counted from 0.
Batch(docs, i, batchSize) == SubSeq(docs, i + 1, Min(i + batchSize, Len(docs)))

\* The loop test with <= for <: one more, empty, batch after a corpus that
\* fills its batches (a mutant of MoreBatches).
MoreBatchesInclusive(i, docs) == i <= Len(docs)

\* The loop test of embedDocumentsInBatches.
MoreBatches(i, docs) == i < Len(docs)

\* embedDocumentsInBatches(documents, batchSize) when every cohere.embed call
\* succeeds: the loop from index i on, with the embeddings pushed so far.
BatchTexts(batch) == [j \in 1..Len(batch) |-> DocumentText(batch[j])]
RECURSIVE EmbedFrom(_, _, _, _)
EmbedFrom(docs, batchSize, i, allEmbeddings) ==
  IF MoreBatches(i, docs)
  THEN EmbedFrom(docs, batchSize, i + batchSize,
                 allEmbeddings \o EmbedResponse(BatchTexts(Batch(docs, i, batchSize))))
  ELSE allEmbeddings
embedDocumentsInBatches(docs, batchSize) == EmbedFrom(docs, batchSize, 0, <<>>)

\* allEmbeddings.forEach((embedding, i) => { documents[i].embedding = embedding }):
\* the documents as the forEach leaves them, each with its embedding set in
\* place, and whether it threw: with more embeddings than documents,
\* documents[i] is undefined at the first embedding in excess and setting its
\* property throws a TypeError.
AttachEmbeddings(docs, embeddings) ==
  [t |-> IF Len(embeddings) > Len(docs) THEN "throw" ELSE "return",
   v |-> [j \in 1..Len(docs) |->
            IF j <= Len(embeddings)
            THEN [docs[j] EXCEPT !.embedding = JsArray(embeddings[j])]
            ELSE docs[j]]]

\* A record of the cache file: the keys JSON.stringify writes for a document
\* (a key whose value is undefined is left out, and reads back as undefined).
CacheItem(doc) ==
  [t |-> "object",
   v |-> [id |-> doc.id, title |-> doc.data.title,
          snippet |-> doc.data.snippet, embedding |-> doc.embedding]]

\* The file saveEmbeddingsToFile writes: JSON.stringify(embeddingsData).
FileAbsent == [t |-> "absent", v |-> <<>>]
FileUnparsable == [t |-> "unparsable", v |-> <<>>]
FileJson(value) == [t |-> "json", v |-> value]
saveEmbeddingsToFile(docs) ==
  FileJson(JsArray([j \in 1..Len(docs) |-> CacheItem(docs[j])]))

\* loadEmbeddingsFromFile: fs.readFile throws on an absent file, JSON.parse on an
\* unparsable one, embeddingsData.length on null, embeddingsData.map on a value
\* that is no array, and item.id on a null item; every throw is caught and null
\* returned.  Any other item is mapped, whatever it is and whatever keys it
\* has: a key it lacks reads as undefined.
loadEmbeddingsFromFile(file) ==
  IF file.t # "json" THEN JsNull
  ELSE IF file.v.t # "array" THEN JsNull
  ELSE LET items == file.v.v
       IN  IF \E j \in 1..Len(items) : Nullish(items[j]) THEN JsNull
           ELSE JsArray([j \in 1..Len(items) |->
                  [id |-> Prop(items[j], "id"),
                   data |-> [title |-> Prop(items[j], "title"),
                             snippet |-> Prop(items[j], "snippet")],
                   embedding |-> Prop(items[j], "embedding")]])

\* A test that also rebuilds on an empty cache, as
\* if (!cachedDocuments || !cachedDocuments.length) would (a mutant of NeedsBuild).
NeedsBuildWhenEmpty(loaded) == loaded.t = "null" \/ Len(loaded.v) = 0

\* if (!cachedDocuments): null is falsy, every array (the empty one too) is truthy.
NeedsBuild(loaded) == loaded.t = "null"

\* The cache a previous run wrote for a corpus of n documents.
BuiltCache(n) ==
  LET docs == loadDocuments(n)
      texts == [j \in 1..n |-> DocumentText(docs[j])]
  IN  saveEmbeddingsToFile(AttachEmbeddings(docs, EmbedResponse(texts)).v)

\* Cache files that are parsable but no complete collection of records: a
\* record without its embedding, a record whose title is no text and cannot be
\* converted to one, a null, a number or a string in place of a record, a
\* value that is no array.
RecordWithUnprintableTitle ==
  [t |-> "object",
   v |-> [id |-> JsString("tours_Tour 1"), title |-> Unprintable,
          snippet |-> JsString("Line 1"), embedding |-> JsArray(<<1, 0>>)]]
RecordWithoutEmbedding ==
  [t |-> "object",
   v |-> [id |-> JsString("tours_Tour 1"), title |-> JsString("Tour 1"),
          snippet |-> JsString("Line 1"), embedding |-> JsUndefined]]
MalformedCacheFiles ==
  {FileJson(JsArray(<<RecordWithoutEmbedding>>)),
   FileJson(JsArray(BuiltCache(1).v.v \o <<RecordWithoutEmbedding>>)),
   FileJson(JsArray(<<RecordWithUnprintableTitle>>)),
   FileJson(JsArray(<<JsNull>>)),
   FileJson(JsArray(BuiltCache(1).v.v \o <<JsNull>>)),
   FileJson(JsArray(<<JsonNumber(5)>>)),
   FileJson(JsArray(BuiltCache(1).v.v \o <<JsString("x")>>)),
   FileJson(JsNull),
   FileJson([t |-> "object", v |-> <<>>])}

\* A cache file of complete records whose embeddings differ in length.
RecordOfOtherDimension ==
  [t |-> "object",
   v |-> [id |-> JsString("tours_Tour 2"), title |-> JsString("Tour 2"),
          snippet |-> JsString("Line 2"), embedding |-> JsArray(<<1, 0, 0>>)]]
MixedDimensionCache ==
  FileJson(JsArray(BuiltCache(1).v.v \o <<RecordOfOtherDimension>>))

\* The cache files the server may find at startup.
CacheFiles ==
  {FileAbsent, FileUnparsable} \cup {BuiltCache(n) : n \in 0..MaxCached}
     \cup MalformedCacheFiles \cup {MixedDimensionCache}

(***************************************************************************)
(* The state of the server.                                                *)
(***************************************************************************)
VARIABLES
  process,          \* "running", or "exited" after an unhandled rejection
  cacheFile,        \* ./documents/embeddings.json
  fileWrites,       \* history: completed writes of the cache file
  initPc,           \* where initializeDocuments is suspended
  loadResult,       \* history: what loadEmbeddingsFromFile returned
  loadDocumentsCalls, \* history: calls of loadDocuments
  fileIndex,        \* loadDocuments' position in files: the file being read
  documents,        \* initializeDocuments' documents
  i,                \* embedDocumentsInBatches' loop index
  allEmbeddings,    \* embedDocumentsInBatches' allEmbeddings
  batchLog,         \* history: the size of each batch sent to cohere.embed
  embedFailures,    \* history: embed calls of the build that failed
  buildEvents,      \* history: batches submitted and returned, waits elapsed
  cachedDocuments,  \* the module's cachedDocuments
  reqPc,            \* where the /generate handler is suspended
  prompt,           \* req.body.prompt of the request being handled
  forwarded,        \* the documents handed to cohere.chat
  response,         \* the response sent: [status, error]
  reqEmbedCalls,    \* history: cohere.embed calls of this request
  reqChatCalls,     \* history: cohere.chat calls of this request
  reqCondition,     \* history: the failure condition this request met
  rankThrew,        \* history: getTopKDocuments threw in this request
  served,           \* requests accepted so far
  outcomes,         \* history: [condition, status, error] of failed requests
  rankPc,           \* SpecRank: "call" before getTopKDocuments, "done" after
  rankQuery,        \* SpecRank: queryEmbedding
  rankDocuments,    \* SpecRank: documents
  rankK,            \* SpecRank: k
  rankResult,       \* SpecRank: what getTopKDocuments returned or that it threw
  loadPc,           \* SpecLoad: "call", "read" at an fs.readFile, "done"
  sourceFiles,      \* SpecLoad: the content each file had when it was read
  loadedDocuments   \* SpecLoad: loadDocuments' documents

buildVars ==
  <<cacheFile, fileWrites, initPc, loadResult, loadDocumentsCalls,
    fileIndex, documents, i, allEmbeddings, batchLog, embedFailures, buildEvents,
    cachedDocuments>>
requestVars ==
  <<reqPc, prompt, forwarded, response, reqEmbedCalls, reqChatCalls,
    reqCondition, rankThrew, served, outcomes>>
rankVars == <<rankPc, rankQuery, rankDocuments, rankK, rankResult>>
loadVars == <<loadPc, sourceFiles, loadedDocuments>>
vars == <<process, buildVars, requestVars, rankVars, loadVars>>

NoResponse == [status |-> 0, error |-> ""]
\* res.status(s).json({ error }) and res.json({ text, citations }) (status 200,
\* no error key).
ErrorResponse(status, error) == [status |-> status, error |-> error]
AnswerResponse == [status |-> 200, error |-> ""]

RequestIdle ==
  /\ reqPc = "idle"
  /\ prompt = JsUndefined
  /\ forwarded = <<>>
  /\ response = NoResponse
  /\ reqEmbedCalls = 0
  /\ reqChatCalls = 0
  /\ reqCondition = "none"
  /\ rankThrew = FALSE

RankOff ==
  /\ rankPc = "off"
  /\ rankQuery = <<>>
  /\ rankDocuments = JsArray(<<>>)
  /\ rankK = 0
  /\ rankResult = Returned(<<>>)

LoadOff ==
  /\ loadPc = "off"
  /\ sourceFiles = <<>>
  /\ loadedDocuments = <<>>

\* let cachedDocuments = []; initializeDocuments() is called at module load and
\* suspends in loadEmbeddingsFromFile; app.listen then opens the server.
ServerStart ==
  /\ fileWrites = 0
  /\ initPc = "loadCache"
  /\ loadResult = [t |-> "pending", v |-> <<>>]
  /\ loadDocumentsCalls = 0
  /\ fileIndex = 0
  /\ documents = <<>>
  /\ i = 0
  /\ allEmbeddings = <<>>
  /\ batchLog = <<>>
  /\ embedFailures = 0
  /\ buildEvents = <<>>
  /\ cachedDocuments = JsArray(<<>>)
  /\ RequestIdle
  /\ served = 0
  /\ outcomes = {}

Init ==
  /\ process = "running"
  /\ cacheFile \in CacheFiles
  /\ ServerStart
  /\ RankOff
  /\ LoadOff

(***************************************************************************)
(* initializeDocuments.  Each action runs from one await to the next.      *)
(***************************************************************************)
\* initializeDocuments() is not awaited and has no catch: when it rejects, Node
\* either raises the unhandled rejection as an uncaught exception and exits
\* (the default since Node 15) or only warns (older versions), depending on
\* the runtime the server is started with.
UnhandledRejection == {"exited", "running"}

\* sleep(ms): the promise resolves when the timer of ms milliseconds fires.
sleep(ms) == [event |-> "slept", ms |-> ms]

\* The head of the for loop of embedDocumentsInBatches at index idx: either the
\* next batch is sent to cohere.embed, or the loop ends, allEmbeddings is
\* returned, the embeddings are attached and saveEmbeddingsToFile starts; when
\* the forEach that attaches them throws, initializeDocuments rejects there.
\* When making the texts of the batch throws, cohere.embed is not called and
\* initializeDocuments rejects as well.
SubmitOrFinish(docs, idx, embeddings, events) ==
  IF MoreBatches(idx, docs) /\ TextsThrow(Batch(docs, idx, BatchSize))
  THEN /\ initPc' = "textFailed"
       /\ batchLog' = batchLog
       /\ buildEvents' = events
       /\ documents' = docs
       /\ process' \in UnhandledRejection
  ELSE IF MoreBatches(idx, docs)
  THEN /\ initPc' = "embed"
       /\ batchLog' = Append(batchLog, Len(Batch(docs, idx, BatchSize)))
       /\ buildEvents' = Append(events, [event |-> "submit", ms |-> 0])
       /\ documents' = docs
       /\ process' = process
  ELSE /\ batchLog' = batchLog
       /\ buildEvents' = events
       /\ documents' = AttachEmbeddings(docs, embeddings).v
       /\ IF AttachEmbeddings(docs, embeddings).t = "throw"
          THEN /\ initPc' = "attachFailed"
               /\ process' \in UnhandledRejection
          ELSE /\ initPc' = "save"
               /\ process' = process

\* cachedDocuments = await loadEmbeddingsFromFile(); if (!cachedDocuments) the
\* build starts with loadDocuments(), which runs to the fs.readFile of its
\* first file.
LoadCache ==
  /\ process = "running"
  /\ initPc = "loadCache"
  /\ LET loaded == loadEmbeddingsFromFile(cacheFile)
     IN  /\ loadResult' = loaded
         /\ cachedDocuments' = loaded
         /\ initPc' = IF NeedsBuild(loaded) THEN "loadDocuments" ELSE "done"
         /\ loadDocumentsCalls' =
              IF NeedsBuild(loaded) THEN loadDocumentsCalls + 1
              ELSE loadDocumentsCalls
         /\ fileIndex' = IF NeedsBuild(loaded) THEN 1 ELSE fileIndex
  /\ UNCHANGED <<process, cacheFile, fileWrites, documents, i,
                 allEmbeddings, batchLog, embedFailures>>
  /\ UNCHANGED buildEvents
  /\ UNCHANGED <<requestVars, rankVars, loadVars>>

\* What the f-th source file may hold at the moment it is read: tours.json a
\* corpus of one of the sizes, or one whose last record has a product_line
\* that cannot be converted to a string, every other file nothing.
SourcesAtRead(f) ==
  {TourSources(n)[f] : n \in CorpusSizes}
    \cup {UnprintableSources(n)[f] : n \in UnprintableSizes}

\* await fs.readFile(file) of a file that is not the last of the list settles:
\* the file's documents are pushed (or its error is caught) and the loop goes
\* on to the fs.readFile of the next file.
ReadSourceFile ==
  /\ process = "running"
  /\ initPc = "loadDocuments"
  /\ fileIndex < Len(Files)
  /\ \E content \in SourcesAtRead(fileIndex) :
       documents' = documents \o SourceDocuments(Files[fileIndex], content)
  /\ fileIndex' = fileIndex + 1
  /\ UNCHANGED <<process, cacheFile, fileWrites, initPc, loadResult,
                 loadDocumentsCalls, i, allEmbeddings, batchLog, embedFailures,
                 cachedDocuments>>
  /\ UNCHANGED buildEvents
  /\ UNCHANGED <<requestVars, rankVars, loadVars>>

\* await fs.readFile(file) of the last file settles: the loop ends,
\* const documents = await loadDocuments() gets the documents and
\* embedDocumentsInBatches(documents) runs to its first cohere.embed call.
LoadDocumentsDone ==
  /\ process = "running"
  /\ initPc = "loadDocuments"
  /\ fileIndex = Len(Files)
  /\ \E content \in SourcesAtRead(fileIndex) :
       SubmitOrFinish(documents \o SourceDocuments(Files[fileIndex], content),
                      0, <<>>, buildEvents)
  /\ fileIndex' = fileIndex + 1
  /\ i' = 0
  /\ allEmbeddings' = <<>>
  /\ UNCHANGED <<cacheFile, fileWrites, loadResult,
                 loadDocumentsCalls, embedFailures, cachedDocuments>>
  /\ UNCHANGED <<requestVars, rankVars, loadVars>>

\* The loop without its await sleep(10000): the next batch is submitted as soon
\* as the response is pushed (a mutant of EmbedBatchOk).
EmbedBatchOkUnpaced ==
  /\ process = "running"
  /\ initPc = "embed"
  /\ allEmbeddings' =
       allEmbeddings \o EmbedResponse(BatchTexts(Batch(documents, i, BatchSize)))
  /\ i' = i + BatchSize
  /\ SubmitOrFinish(documents, i + BatchSize,
                    allEmbeddings \o EmbedResponse(BatchTexts(Batch(documents, i, BatchSize))),
                    Append(buildEvents, [event |-> "return", ms |-> 0]))
  /\ UNCHANGED <<cacheFile, fileWrites, loadResult,
                 loadDocumentsCalls, fileIndex, embedFailures, cachedDocuments>>
  /\ UNCHANGED <<requestVars, rankVars, loadVars>>

\* const response = await cohere.embed(...) resolves;
\* allEmbeddings.push(...response.embeddings); sleep(10000) starts.
EmbedBatchOk ==
  /\ process = "running"
  /\ initPc = "embed"
  /\ LET batch == Batch(documents, i, BatchSize)
         texts == [j \in 1..Len(batch) |-> DocumentText(batch[j])]
     IN  allEmbeddings' = allEmbeddings \o EmbedResponse(texts)
  /\ initPc' = "sleep"
  /\ buildEvents' = Append(buildEvents, [event |-> "return", ms |-> 0])
  /\ UNCHANGED <<process, cacheFile, fileWrites, loadResult,
                 loadDocumentsCalls, fileIndex, documents, i, batchLog, embedFailures,
                 cachedDocuments>>
  /\ UNCHANGED <<requestVars, rankVars, loadVars>>

\* The rejection caught inside the loop and the batch skipped (a mutant of
\* EmbedBatchFail).
EmbedBatchFailSkipped ==
  /\ process = "running"
  /\ initPc = "embed"
  /\ embedFailures' = embedFailures + 1
  /\ initPc' = "sleep"
  /\ UNCHANGED <<process, cacheFile, fileWrites, loadResult,
                 loadDocumentsCalls, fileIndex, documents, i, allEmbeddings, batchLog,
                 cachedDocuments>>
  /\ UNCHANGED buildEvents
  /\ UNCHANGED <<requestVars, rankVars, loadVars>>

\* await cohere.embed(...) rejects: embedDocumentsInBatches and
\* initializeDocuments reject, and nothing after the call runs.
EmbedBatchFail ==
  /\ process = "running"
  /\ initPc = "embed"
  /\ embedFailures' = embedFailures + 1
  /\ initPc' = "embedFailed"
  /\ process' \in UnhandledRejection
  /\ UNCHANGED <<cacheFile, fileWrites, loadResult,
                 loadDocumentsCalls, fileIndex, documents, i, allEmbeddings, batchLog,
                 cachedDocuments>>
  /\ UNCHANGED buildEvents
  /\ UNCHANGED <<requestVars, rankVars, loadVars>>

\* await sleep(10000) resolves; i += batchSize and the loop test.
SleepDone ==
  /\ process = "running"
  /\ initPc = "sleep"
  /\ i' = i + BatchSize
  /\ SubmitOrFinish(documents, i + BatchSize, allEmbeddings,
                    Append(buildEvents, sleep(SleepMs)))
  /\ UNCHANGED <<cacheFile, fileWrites, loadResult,
                 loadDocumentsCalls, fileIndex, allEmbeddings, embedFailures,
                 cachedDocuments>>
  /\ UNCHANGED <<requestVars, rankVars, loadVars>>

\* The build without its last assignment, cachedDocuments = documents left out
\* (a mutant of SaveOk).
SaveOkNotInstalled ==
  /\ process = "running"
  /\ initPc = "save"
  /\ cacheFile' = saveEmbeddingsToFile(documents)
  /\ fileWrites' = fileWrites + 1
  /\ initPc' = "done"
  /\ UNCHANGED <<process, loadResult, loadDocumentsCalls, fileIndex, documents,
                 i, allEmbeddings, batchLog, embedFailures, cachedDocuments>>
  /\ UNCHANGED buildEvents
  /\ UNCHANGED <<requestVars, rankVars, loadVars>>

\* await saveEmbeddingsToFile(documents) resolves; cachedDocuments = documents.
SaveOk ==
  /\ process = "running"
  /\ initPc = "save"
  /\ cacheFile' = saveEmbeddingsToFile(documents)
  /\ fileWrites' = fileWrites + 1
  /\ cachedDocuments' = JsArray(documents)
  /\ initPc' = "done"
  /\ UNCHANGED <<process, loadResult, loadDocumentsCalls, fileIndex, documents,
                 i, allEmbeddings, batchLog, embedFailures>>
  /\ UNCHANGED buildEvents
  /\ UNCHANGED <<requestVars, rankVars, loadVars>>

\* fs.writeFile rejects: the file is as it was or cut short, and
\* initializeDocuments rejects before cachedDocuments = documents.
SaveFail ==
  /\ process = "running"
  /\ initPc = "save"
  /\ cacheFile' \in {cacheFile, FileUnparsable}
  /\ initPc' = "saveFailed"
  /\ process' \in UnhandledRejection
  /\ UNCHANGED <<fileWrites, loadResult, loadDocumentsCalls, fileIndex,
                 documents, i, allEmbeddings, batchLog, embedFailures,
                 cachedDocuments>>
  /\ UNCHANGED buildEvents
  /\ UNCHANGED <<requestVars, rankVars, loadVars>>

(***************************************************************************)
(* app.post('/generate').                                                  *)
(***************************************************************************)
\* A sleep that spins until the time is up instead of awaiting a timer: no
\* callback runs while initializeDocuments sleeps (a mutant of EventLoopFree).
EventLoopBusyInSleep == process = "running" /\ initPc # "sleep"

\* initializeDocuments gives the thread back at each await (line 132 for the
\* embed call, line 139 for the sleep): whenever the process runs, the event
\* loop can run a request handler's next callback.
EventLoopFree == process = "running"

\* The prompts a request may carry: none, the empty string, the number 0, a
\* question.
Prompts ==
  {JsUndefined, JsString(""), JsonNumber(0), JsString("Where should I travel?")}

\* The vectors cohere.embed may return for a prompt.
QueryEmbeddings == {<<1, 0>>, <<0, 1>>}

\* A test for a missing prompt only, as if (prompt === undefined) would be
\* (a mutant of Falsy).
FalsyMissingOnly(value) == value.t \in {"undefined", "null"}

\* if (!prompt): undefined, null, the empty string, the number 0 and false
\* are falsy.
Falsy(value) == ToBooleanFalse(value)

\* A response is sent; a request that met one of the failure conditions is
\* logged with it.
Respond(resp, condition) ==
  /\ response' = resp
  /\ reqPc' = "responded"
  /\ reqCondition' = condition
  /\ outcomes' =
       IF condition = "none" THEN outcomes
       ELSE outcomes \cup {[condition |-> condition, status |-> resp.status,
                            error |-> resp.error]}

\* A request arrives: 400 when the prompt is falsy, else cohere.embed is called.
Generate ==
  /\ EventLoopFree
  /\ reqPc = "idle"
  /\ served < MaxRequests
  /\ served' = served + 1
  /\ \E p \in Prompts :
       /\ prompt' = p
       /\ IF Falsy(p)
          THEN /\ Respond(ErrorResponse(400, "Prompt is required"), "emptyPrompt")
               /\ reqEmbedCalls' = reqEmbedCalls
          ELSE /\ reqPc' = "embed"
               /\ reqEmbedCalls' = reqEmbedCalls + 1
               /\ UNCHANGED <<response, reqCondition, outcomes>>
  /\ UNCHANGED <<forwarded, reqChatCalls, rankThrew>>
  /\ UNCHANGED <<process, buildVars, rankVars, loadVars>>

\* await cohere.embed resolves: the prompt's embedding is ranked against
\* cachedDocuments as it is now; a throw of getTopKDocuments, or of making the
\* text of a top document, lands in the catch, else cohere.chat is called with
\* the top documents.
GenerateEmbedOk ==
  /\ EventLoopFree
  /\ reqPc = "embed"
  /\ \E queryEmbedding \in QueryEmbeddings :
       LET topDocuments == getTopKDocuments(queryEmbedding, cachedDocuments, TopK)
           condition == IF initPc = "done" THEN "none" ELSE "notReady"
       IN  IF topDocuments.t = "throw"
           THEN /\ rankThrew' = TRUE
                /\ Respond(ErrorResponse(500, "Cohere request failed"), condition)
                /\ UNCHANGED <<forwarded, reqChatCalls>>
           ELSE IF TextsThrow(topDocuments.v)
           THEN /\ rankThrew' = FALSE
                /\ Respond(ErrorResponse(500, "Cohere request failed"), condition)
                /\ UNCHANGED <<forwarded, reqChatCalls>>
           ELSE /\ rankThrew' = FALSE
                /\ forwarded' = [j \in 1..Len(topDocuments.v) |->
                                   DocumentText(topDocuments.v[j])]
                /\ reqChatCalls' = reqChatCalls + 1
                /\ reqPc' = "chat"
                /\ reqCondition' = condition
                /\ UNCHANGED <<response, outcomes>>
  /\ UNCHANGED <<prompt, reqEmbedCalls, served>>
  /\ UNCHANGED <<process, buildVars, rankVars, loadVars>>

\* await cohere.embed rejects: the catch answers 500.
GenerateEmbedFail ==
  /\ EventLoopFree
  /\ reqPc = "embed"
  /\ Respond(ErrorResponse(500, "Cohere request failed"), "embedFailed")
  /\ UNCHANGED <<prompt, forwarded, reqEmbedCalls, reqChatCalls, rankThrew, served>>
  /\ UNCHANGED <<process, buildVars, rankVars, loadVars>>

\* await cohere.chat resolves: res.json({ text, citations }).
GenerateChatOk ==
  /\ EventLoopFree
  /\ reqPc = "chat"
  /\ Respond(AnswerResponse, reqCondition)
  /\ UNCHANGED <<prompt, forwarded, reqEmbedCalls, reqChatCalls, rankThrew, served>>
  /\ UNCHANGED <<process, buildVars, rankVars, loadVars>>

\* await cohere.chat rejects: the catch answers 500.
GenerateChatFail ==
  /\ EventLoopFree
  /\ reqPc = "chat"
  /\ Respond(ErrorResponse(500, "Cohere request failed"), reqCondition)
  /\ UNCHANGED <<prompt, forwarded, reqEmbedCalls, reqChatCalls, rankThrew, served>>
  /\ UNCHANGED <<process, buildVars, rankVars, loadVars>>

\* The handler has returned; the next request gets fresh locals.
GenerateReturn ==
  /\ EventLoopFree
  /\ reqPc = "responded"
  /\ reqPc' = "idle"
  /\ prompt' = JsUndefined
  /\ forwarded' = <<>>
  /\ response' = NoResponse
  /\ reqEmbedCalls' = 0
  /\ reqChatCalls' = 0
  /\ reqCondition' = "none"
  /\ rankThrew' = FALSE
  /\ UNCHANGED <<served, outcomes>>
  /\ UNCHANGED <<process, buildVars, rankVars, loadVars>>

Next ==
  \/ LoadCache
  \/ ReadSourceFile
  \/ LoadDocumentsDone
  \/ EmbedBatchOk
  \/ EmbedBatchFail
  \/ SleepDone
  \/ SaveOk
  \/ SaveFail
  \/ Generate
  \/ GenerateEmbedOk
  \/ GenerateEmbedFail
  \/ GenerateChatOk
  \/ GenerateChatFail
  \/ GenerateReturn

Spec == Init /\ [][Next]_vars

\* Fair scheduling of initializeDocuments: the read of the cache file and of
\* the sources completes, every cohere.embed call settles (resolves or
\* rejects), the timer of every sleep fires, the write of the cache file
\* settles.  Nothing is assumed of the requests.
BuildFairness ==
  /\ WF_vars(LoadCache)
  /\ WF_vars(ReadSourceFile)
  /\ WF_vars(LoadDocumentsDone)
  /\ WF_vars(EmbedBatchOk \/ EmbedBatchFail)
  /\ WF_vars(SleepDone)
  /\ WF_vars(SaveOk \/ SaveFail)
SpecFair == Spec /\ BuildFairness

(***************************************************************************)
(* Claims about initializeDocuments and the /generate handler (Spec).      *)
(***************************************************************************)
Ceil(n, d) == (n + d - 1) \div d

\* C1: whenever loadEmbeddingsFromFile returned a parsed cache,
\* initializeDocuments has sent no batch to cohere.embed, has not called
\* loadDocuments, has written no cache file, and is done with the loaded
\* collection, the one the file holds, as cachedDocuments.
C1_WarmStartNoEmbedding ==
  loadResult.t = "array"
    => /\ batchLog = <<>>
       /\ loadDocumentsCalls = 0
       /\ fileWrites = 0
       /\ initPc = "done"
       /\ cachedDocuments = loadResult
       /\ cachedDocuments = loadEmbeddingsFromFile(cacheFile)

C1_Witness ==
  /\ initPc = "done"
  /\ loadResult.t = "array"
  /\ Len(cachedDocuments.v) = MaxCached
  /\ reqPc = "chat"

\* C2: after a cold start in which every embed call succeeded, the build has
\* sent exactly ceil(corpus size / batch size) batches, each of at most
\* BatchSize texts, and the cache it saved and the corpus it installed hold
\* exactly one document per document of the corpus.
C2_ColdStartBatchCount ==
  (loadResult.t = "null" /\ initPc \in {"save", "done", "saveFailed"})
    => /\ Len(batchLog) = Ceil(Len(documents), BatchSize)
       /\ \A b \in 1..Len(batchLog) : batchLog[b] <= BatchSize
       /\ initPc = "done"
            => /\ cacheFile.t = "json"
               /\ Len(cacheFile.v.v) = Len(documents)
               /\ Len(cachedDocuments.v) = Len(documents)
       /\ embedFailures = 0

C2_Witness ==
  /\ initPc = "done"
  /\ loadResult.t = "null"
  /\ Len(batchLog) = MaxBatches
  /\ Len(cachedDocuments.v) = (MaxBatches - 1) * BatchSize + 1
  /\ fileWrites = 1

\* C3: once an embed call of the build has failed, no cache file is written,
\* the file on disk still loads as "not found", cachedDocuments holds no
\* document, and no document has been ranked and handed to the chat call.
C3_FailedBuildInstallsNothing ==
  embedFailures > 0
    => /\ fileWrites = 0
       /\ loadEmbeddingsFromFile(cacheFile) = JsNull
       /\ cachedDocuments = JsNull
       /\ forwarded = <<>>

\* The second of three batches failed, and a request came after it.
C3_Witness ==
  /\ embedFailures > 0
  /\ Len(batchLog) = 2
  /\ Len(documents) > 2 * BatchSize
  /\ Len(allEmbeddings) = BatchSize
  /\ process = "running"
  /\ reqPc = "responded"
  /\ rankThrew

\* C4: a request with a non-empty prompt that reaches the ranking step before
\* initializeDocuments has completed does not dereference the unset corpus,
\* makes no chat call with the documents of an unready corpus, and is answered
\* with neither the success response nor the response of an upstream failure.
C4_NotReadyIsDistinct ==
  reqCondition = "notReady"
    => /\ ~rankThrew
       /\ reqChatCalls = 0
       /\ reqPc = "responded"
       /\ response # AnswerResponse
       /\ response # ErrorResponse(500, "Cohere request failed")

\* C5: requests that failed for different reasons (empty prompt, corpus not
\* ready, embedding call failed) were answered with different responses.
C5_FailuresPairwiseDistinct ==
  \A a \in outcomes : \A b \in outcomes :
    a.condition # b.condition => <<a.status, a.error>> # <<b.status, b.error>>

\* C6: a request whose prompt is missing or empty has been answered 400
\* "Prompt is required" and has made no cohere.embed and no cohere.chat call,
\* whatever the state of the corpus.
C6_EmptyPromptNoExternalCall ==
  (reqPc # "idle" /\ (prompt = JsUndefined \/ prompt = JsString("")))
    => /\ reqPc = "responded"
       /\ response = ErrorResponse(400, "Prompt is required")
       /\ reqEmbedCalls = 0
       /\ reqChatCalls = 0

\* An empty prompt rejected while the build waits for its second batch.
C6_Witness ==
  /\ reqPc = "responded"
  /\ prompt = JsString("")
  /\ response.status = 400
  /\ initPc = "embed"
  /\ Len(batchLog) = 2

\* C10: a cache file that is not a complete collection of {id, title, snippet,
\* embedding} records loads as "not found": nothing of it becomes
\* cachedDocuments and the rebuild starts.
CompleteRecord(item) ==
  /\ item.t = "object"
  /\ item.v.id.t = "string"
  /\ item.v.title.t = "string"
  /\ item.v.snippet.t = "string"
  /\ item.v.embedding.t = "array"
CompleteCache(file) ==
  /\ file.t = "json"
  /\ file.v.t = "array"
  /\ \A j \in 1..Len(file.v.v) : CompleteRecord(file.v.v[j])
C10_CacheLoadAllOrNothing ==
  (loadResult.t # "pending" /\ fileWrites = 0 /\ ~CompleteCache(cacheFile))
    => /\ loadResult = JsNull
       /\ cachedDocuments = JsNull
       /\ loadDocumentsCalls = 1

(***************************************************************************)
(* SpecRank: getTopKDocuments as a function of its arguments.  The server  *)
(* is not started; the query, the corpus and k are drawn at the start and  *)
(* one step applies the function.                                          *)
(***************************************************************************)
\* Embeddings of dimension 2 with an integer norm; <<0, 0>> has norm zero.
Dimension == Len(ModelVectors[1])
RankVectors == {<<1, 0>>, <<0, 1>>, <<0, 0>>, <<-1, 0>>, <<3, 4>>}
\* Query vectors: of the corpus' dimension, one component short, one too long.
RankQueries == RankVectors \cup {<<1>>, <<1, 0, 0>>}

RankDocument(j, vec) ==
  [id |-> JsString("doc_" \o NatString(j)),
   data |-> [title |-> JsString("Doc " \o NatString(j)), snippet |-> JsString("")],
   embedding |-> JsArray(vec)]
RankCorpora ==
  UNION {{[j \in 1..n |-> RankDocument(j, vecs[j])] : vecs \in [1..n -> RankVectors]}
         : n \in 0..MaxCorpus}

InitRank ==
  /\ process = "off"
  /\ cacheFile = FileAbsent
  /\ ServerStart
  /\ rankPc = "call"
  /\ rankQuery \in RankQueries
  /\ rankDocuments \in {JsArray(docs) : docs \in RankCorpora}
  /\ rankK \in 0..MaxK
  /\ rankResult = Returned(<<>>)
  /\ LoadOff

RankCall ==
  /\ rankPc = "call"
  /\ rankResult' = getTopKDocuments(rankQuery, rankDocuments, rankK)
  /\ rankPc' = "done"
  /\ UNCHANGED <<rankQuery, rankDocuments, rankK>>
  /\ UNCHANGED <<process, buildVars, requestVars, loadVars>>

NextRank == RankCall

SpecRank == InitRank /\ [][NextRank]_vars

(***************************************************************************)
(* The ranking the specification asks of top_k, stated apart from the      *)
(* code: cosine similarity as an exact rational, a zero-norm corpus vector *)
(* last, ties in corpus order.                                             *)
(***************************************************************************)
RECURSIVE InnerProduct(_, _)
InnerProduct(a, b) ==
  IF a = <<>> \/ b = <<>> THEN 0
  ELSE Head(a) * Head(b) + InnerProduct(Tail(a), Tail(b))
Norm(vec) == Sqrt(SumSquares(vec))
ZeroNorm(doc) == Norm(doc.embedding.v) = 0

\* cos(q, a) > cos(q, b) for a query and two vectors of non-zero norm.
MoreSimilar(q, a, b) == InnerProduct(q, a) * Norm(b) > InnerProduct(q, b) * Norm(a)
EquallySimilar(q, a, b) == InnerProduct(q, a) * Norm(b) = InnerProduct(q, b) * Norm(a)

\* Document m of the corpus comes before document j in the asked ranking.
RanksBefore(q, docs, m, j) ==
  IF ZeroNorm(docs[m]) # ZeroNorm(docs[j]) THEN ZeroNorm(docs[j])
  ELSE IF ZeroNorm(docs[m]) THEN m < j
  ELSE \/ MoreSimilar(q, docs[m].embedding.v, docs[j].embedding.v)
       \/ /\ EquallySimilar(q, docs[m].embedding.v, docs[j].embedding.v)
          /\ m < j
ExpectedRanking(q, docs) ==
  [p \in 1..Len(docs) |->
     docs[CHOOSE j \in 1..Len(docs) :
            Cardinality({m \in 1..Len(docs) : RanksBefore(q, docs, m, j)}) = p - 1]]
ExpectedTopK(q, docs, k) == SubSeq(ExpectedRanking(q, docs), 1, Min(k, Len(docs)))

\* The query has the corpus' dimension and a non-zero norm: its cosine
\* similarity to every non-zero corpus vector is defined.
QueryComparable == Len(rankQuery) = Dimension /\ Norm(rankQuery) > 0
SomeZeroNorm(docs) == \E j \in 1..Len(docs) : ZeroNorm(docs[j])

(***************************************************************************)
(* Claims about getTopKDocuments (SpecRank).                               *)
(***************************************************************************)
\* C7: getTopKDocuments returns exactly min(k, corpus size) documents, ordered
\* by descending cosine similarity to the query, documents of equal similarity
\* in their corpus order.
C7_TopKDescendingStable ==
  (rankPc = "done" /\ QueryComparable)
    => rankResult = Returned(ExpectedTopK(rankQuery, rankDocuments.v, rankK))

\* C7 on the corpora without a zero-norm embedding, where the code does hold it.
C7_HoldsWithoutZeroNorm ==
  (rankPc = "done" /\ QueryComparable /\ ~SomeZeroNorm(rankDocuments.v))
    => rankResult = Returned(ExpectedTopK(rankQuery, rankDocuments.v, rankK))

\* C8: with a zero-norm embedding in the corpus, getTopKDocuments raises no
\* error, returns no zero-norm document ahead of a non-zero-norm one (and none
\* at all while a non-zero-norm one is left out), and the non-zero-norm
\* documents it returns are in descending similarity.
C8_ZeroNormRankedLast ==
  (rankPc = "done" /\ QueryComparable /\ SomeZeroNorm(rankDocuments.v))
    => /\ rankResult.t = "return"
       /\ LET top == rankResult.v
              docs == rankDocuments.v
          IN  /\ \A a \in 1..Len(top) : \A b \in (a + 1)..Len(top) :
                   /\ ~(ZeroNorm(top[a]) /\ ~ZeroNorm(top[b]))
                   /\ (~ZeroNorm(top[a]) /\ ~ZeroNorm(top[b]))
                        => ~MoreSimilar(rankQuery, top[b].embedding.v,
                                        top[a].embedding.v)
              /\ (\E a \in 1..Len(top) : ZeroNorm(top[a]))
                   => \A j \in 1..Len(docs) :
                        ZeroNorm(docs[j]) \/ \E a \in 1..Len(top) : top[a] = docs[j]

\* C9: a query vector whose length differs from the corpus dimension makes the
\* search report an error instead of returning a ranking.
C9_DimensionMismatchReported ==
  (rankPc = "done" /\ Len(rankDocuments.v) > 0 /\ Len(rankQuery) # Dimension)
    => rankResult.t = "throw"

(***************************************************************************)
(* Claims about the build, the corpus and the request path (Spec).         *)
(***************************************************************************)
\* The vector the provider returns for the text of a document.
EmbeddingOfText(doc) == JsArray(ProviderEmbedding(DocumentText(doc)))
BuildSucceeded == loadResult.t = "null" /\ initPc \in {"save", "done", "saveFailed"}
\* The first documents of the corpus, enough for three batches of batchSize.
CorpusPrefix(docs, batchSize) == SubSeq(docs, 1, Min(Len(docs), 2 * batchSize + 1))

\* C11: after a build in which every embed call succeeded, the embedding
\* attached to each document is the vector the provider returns for that
\* document's text "{title}. {snippet}", with no shift at a batch boundary; the
\* installed corpus is that collection; and embedDocumentsInBatches returns
\* the vectors in document order for every batch size.
C11_IndexCorrespondence ==
  BuildSucceeded
    => /\ \A j \in 1..Len(documents) :
            documents[j].embedding = EmbeddingOfText(documents[j])
       /\ allEmbeddings = embedDocumentsInBatches(documents, BatchSize)
       /\ initPc = "done" => cachedDocuments = JsArray(documents)
       /\ \A batchSize \in 1..MaxBatchSize :
            LET docs == CorpusPrefix(documents, batchSize)
                embeddings == embedDocumentsInBatches(docs, batchSize)
            IN  /\ Len(embeddings) = Len(docs)
                /\ \A j \in 1..Len(docs) :
                     JsArray(embeddings[j]) = EmbeddingOfText(docs[j])

\* A build of three batches is installed; the documents on either side of a
\* batch boundary have different embeddings.
C11_Witness ==
  /\ initPc = "done"
  /\ loadResult.t = "null"
  /\ Len(batchLog) = MaxBatches
  /\ Len(cachedDocuments.v) > BatchSize
  /\ cachedDocuments.v[BatchSize].embedding # cachedDocuments.v[BatchSize + 1].embedding
  /\ cachedDocuments.v[BatchSize + 1].embedding = EmbeddingOfText(TourDocument(BatchSize + 1))

(***************************************************************************)
(* SpecLoad: loadDocuments alone, one step for each await fs.readFile.  The *)
(* server is not started; the content of a file is drawn when the file is  *)
(* read, so the files may change between two reads.                        *)
(***************************************************************************)
\* The j-th record of a source file, with every field the callback reads.
SourceRecord(file, j) ==
  CASE SourceKind(file) = "tour_details" ->
         JsObject([name |-> JsString("Trek " \o NatString(j)),
                   description |-> JsString("Ten days"),
                   details |-> JsArray(<<JsObject([body |-> JsString("Day 1")]),
                                         JsObject([body |-> JsString("Day 2")])>>)])
    [] SourceKind(file) = "tours" -> TourRecord(j)
    [] SourceKind(file) = "rest_countries" ->
         JsObject([name |-> JsObject([common |-> JsString("Land " \o NatString(j)),
                                      official |-> JsString("Republic " \o NatString(j))]),
                   capital |-> JsArray(<<JsString("Paris")>>),
                   region |-> JsString("Europe"),
                   subregion |-> JsString("Western Europe"),
                   population |-> JsonNumber(67),
                   languages |-> JsDictionary(<<JsString("French"), JsString("Breton")>>),
                   area |-> JsonNumber(551)])
    [] SourceKind(file) = "unesco_sites" ->
         JsObject([site |-> JsString("Site " \o NatString(j)),
                   short_description |-> JsString("<p>Old town</p>")])
    [] SourceKind(file) = "merged_countries" ->
         JsObject([name |-> JsString("Country " \o NatString(j)),
                   capital |-> JsString("Lima"),
                   region |-> JsString("Americas"),
                   population |-> JsonNumber(33),
                   language |-> JsString("Spanish"),
                   currency |-> JsString("Sol")])

\* The JSON a source file holds for a list of records.
SourceJson(file, records) ==
  IF SourceKind(file) = "unesco_sites"
  THEN FileJson(JsObject([query |-> JsObject([row |-> JsArray(records)])]))
  ELSE FileJson(JsArray(records))
SourceRecordList(file, n) == [j \in 1..n |-> SourceRecord(file, j)]

\* A record whose name (its site, for unesco_sites.json) cannot be converted to
\* a string: the template of the id throws on it.
UnprintableRecord(file) ==
  CASE SourceKind(file) = "rest_countries" ->
         [SourceRecord(file, 1) EXCEPT !.v.name.v.common = Unprintable]
    [] SourceKind(file) = "unesco_sites" ->
         [SourceRecord(file, 1) EXCEPT !.v.site = Unprintable]
    [] OTHER -> [SourceRecord(file, 1) EXCEPT !.v.name = Unprintable]

\* What a source file may hold: nothing, no JSON, JSON null, one to MaxRecords
\* records, records followed by a null on which the callback throws, or a
\* record on which the callback throws followed by a record.
SourceContents(file) ==
  {FileAbsent, FileUnparsable, FileJson(JsNull),
   SourceJson(file, <<UnprintableRecord(file), SourceRecord(file, 1)>>)}
    \cup {SourceJson(file, SourceRecordList(file, n)) : n \in 1..MaxRecords}
    \cup {SourceJson(file, SourceRecordList(file, n) \o <<JsNull>>)
            : n \in 1..(MaxRecords - 1)}
SourceSets ==
  {<<a, b, c, d, e>> : a \in SourceContents(Files[1]), b \in SourceContents(Files[2]),
                       c \in SourceContents(Files[3]), d \in SourceContents(Files[4]),
                       e \in SourceContents(Files[5])}

\* A record with some of its fields absent.
Without(record, absent) ==
  JsObject([k \in DOMAIN record.v |->
              IF k \in absent THEN JsUndefined ELSE record.v[k]])
\* Records with a field absent inside name, capital or details.
NestedAbsences(file) ==
  IF SourceKind(file) = "rest_countries"
  THEN {[SourceRecord(file, 1) EXCEPT !.v.name = Without(@, absent)]
          : absent \in (SUBSET {"common", "official"}) \ {{}}}
         \cup {[SourceRecord(file, 1) EXCEPT !.v.capital = JsArray(<<>>)]}
  ELSE IF SourceKind(file) = "tour_details"
  THEN {[SourceRecord(file, 1) EXCEPT
           !.v.details = JsArray(<<JsObject([body |-> JsUndefined]),
                                   JsObject([body |-> JsString("Day 2")])>>)]}
  ELSE {}
\* The record of a source with any subset of its fields absent.
PartialRecords(file) ==
  {Without(SourceRecord(file, 1), absent)
     : absent \in (SUBSET DOMAIN SourceRecord(file, 1).v) \ {{}}}
    \cup NestedAbsences(file)
\* One source file with one such record, the other files absent.
OptionalFieldSources ==
  UNION {{[f \in 1..Len(Files) |->
             IF f = g THEN SourceJson(Files[g], <<record>>) ELSE FileAbsent]
           : record \in PartialRecords(Files[g])} : g \in 1..Len(Files)}

InitLoad ==
  /\ process = "off"
  /\ cacheFile = FileAbsent
  /\ ServerStart
  /\ RankOff
  /\ loadPc = "call"
  /\ sourceFiles = <<>>
  /\ loadedDocuments = <<>>

\* What the next file may hold when it is read, after the contents read so
\* far: any of the file's contents, or, to keep the runs of single records
\* with absent fields apart from the others, such a record when every file
\* before was absent, and nothing once such a record has been read.
ContentsAtRead(read) ==
  LET file == Files[Len(read) + 1]
      partial(f) == {SourceJson(Files[f], <<record>>)
                       : record \in PartialRecords(Files[f])}
  IN  IF \E f \in 1..Len(read) : read[f] \in partial(f) \ SourceContents(Files[f])
      THEN {FileAbsent}
      ELSE IF \A f \in 1..Len(read) : read[f] = FileAbsent
      THEN SourceContents(file) \cup partial(Len(read) + 1)
      ELSE SourceContents(file)

\* loadDocuments() is called: const documents = [] and the loop runs to the
\* fs.readFile of the first file.
LoadDocumentsCall ==
  /\ loadPc = "call"
  /\ loadPc' = "read"
  /\ sourceFiles' = <<>>
  /\ loadedDocuments' = <<>>
  /\ UNCHANGED <<process, buildVars, requestVars, rankVars>>

\* await fs.readFile(file) settles with the content the file has now: the try
\* block pushes the file's documents or ends in the catch, and the loop goes on
\* to the next file or, after the last, loadDocuments returns documents.
LoadDocumentsRead ==
  /\ loadPc = "read"
  /\ \E content \in ContentsAtRead(sourceFiles) :
       /\ sourceFiles' = Append(sourceFiles, content)
       /\ loadedDocuments' =
            loadedDocuments \o SourceDocuments(Files[Len(sourceFiles) + 1], content)
  /\ loadPc' = IF Len(sourceFiles) + 1 = Len(Files) THEN "done" ELSE "read"
  /\ UNCHANGED <<process, buildVars, requestVars, rankVars>>

NextLoad == LoadDocumentsCall \/ LoadDocumentsRead

SpecLoad == InitLoad /\ [][NextLoad]_vars

(***************************************************************************)
(* Claims about loadDocuments (SpecLoad).                                  *)
(***************************************************************************)
\* Reading, parsing or mapping the file fails: it is absent or unparsable,
\* forEach cannot run, or the callback throws on one of its records.
SourceFails(file, content) ==
  \/ content.t # "json"
  \/ SourceRecords(file, content.v).t = "throw"
  \/ \E j \in 1..Len(SourceRecords(file, content.v).v) :
       RecordDocument(file, SourceRecords(file, content.v).v[j]).t = "throw"
\* The documents of a source when every other file is absent.
SourceAlone(contents, f) ==
  LoadDocumentsFromFiles([g \in 1..Len(Files) |->
                            IF g = f THEN contents[f] ELSE FileAbsent])
RECURSIVE IsolatedFrom(_, _)
IsolatedFrom(contents, f) ==
  IF f > Len(Files) THEN <<>>
  ELSE (IF SourceFails(Files[f], contents[f]) THEN <<>>
        ELSE SourceAlone(contents, f)) \o IsolatedFrom(contents, f + 1)
SomeSourceFailsPartWay(contents) ==
  \E f \in 1..Len(Files) :
    SourceFails(Files[f], contents[f]) /\ SourceAlone(contents, f) # <<>>

\* C12: loadDocuments returns, in the order of the file list, the documents
\* of every source that did not fail as that source yields them alone, and no
\* document of a source whose reading, parsing or mapping failed.
C12_SourceIsolation ==
  loadPc = "done" => loadedDocuments = IsolatedFrom(sourceFiles, 1)

\* C12 where no file fails after a record of it was mapped: there the code
\* does isolate the sources.
C12_HoldsWhenNothingPushed ==
  (loadPc = "done" /\ ~SomeSourceFailsPartWay(sourceFiles))
    => loadedDocuments = IsolatedFrom(sourceFiles, 1)

\* The value an absent field is to count as: the empty string, or the empty
\* list, dictionary or name where the callback reads inside the field.
EmptyField(file, key) ==
  CASE key = "details" -> JsArray(<<>>)
    [] key = "languages" -> JsDictionary(<<>>)
    [] key = "capital" /\ SourceKind(file) = "rest_countries" -> JsArray(<<>>)
    [] key = "name" /\ SourceKind(file) = "rest_countries" ->
         JsObject([common |-> JsString(""), official |-> JsString("")])
    [] OTHER -> JsString("")
FillInside(file, key, value) ==
  IF key = "name" /\ value.t = "object"
  THEN JsObject([k \in DOMAIN value.v |->
                   IF value.v[k] = JsUndefined THEN JsString("") ELSE value.v[k]])
  ELSE IF key = "details"
  THEN JsArray([j \in 1..Len(value.v) |->
                  JsObject([body |-> IF value.v[j].v.body = JsUndefined
                                     THEN JsString("") ELSE value.v[j].v.body])])
  ELSE value
\* The record with the empty value in place of every absent field.
FillAbsent(file, record) ==
  JsObject([k \in DOMAIN record.v |->
              IF record.v[k] = JsUndefined THEN EmptyField(file, k)
              ELSE FillInside(file, k, record.v[k])])
FilledSources(contents) ==
  [f \in 1..Len(Files) |->
     IF contents[f].t # "json" THEN contents[f]
     ELSE SourceJson(Files[f],
            [j \in 1..Len(SourceRecords(Files[f], contents[f].v).v) |->
               FillAbsent(Files[f], SourceRecords(Files[f], contents[f].v).v[j])])]

\* C19: for a record of any source kind with any subset of its fields absent,
\* loadDocuments throws nothing and produces one document whose id, title and
\* snippet are strings, the ones the record yields with the empty string in
\* place of each absent field (so no "undefined" in them).
C19_AbsentFieldsAreEmpty ==
  (loadPc = "done" /\ sourceFiles \in OptionalFieldSources)
    => /\ Len(loadedDocuments) = 1
       /\ loadedDocuments[1].id.t = "string"
       /\ loadedDocuments[1].data.title.t = "string"
       /\ loadedDocuments[1].data.snippet.t = "string"
       /\ loadedDocuments = LoadDocumentsFromFiles(FilledSources(sourceFiles))

\* The part of C19 the code keeps: no record with absent fields makes the
\* callback throw, and the snippet is always a string.
C19_AbsentFieldsNeverThrow ==
  (loadPc = "done" /\ sourceFiles \in OptionalFieldSources)
    => /\ Len(loadedDocuments) = 1
       /\ loadedDocuments[1].id.t = "string"
       /\ loadedDocuments[1].data.snippet.t = "string"

(***************************************************************************)
(* Claims about pacing and the corpus a request reads (Spec).              *)
(***************************************************************************)
\* The events of the build at which a batch was submitted to cohere.embed.
Submissions == {p \in 1..Len(buildEvents) : buildEvents[p].event = "submit"}

\* C13: every batch but the first is submitted right after a completed wait
\* of the pacing interval, which itself follows the return of the batch
\* before: between two successive submissions lie exactly that return and that
\* wait, and no batch is submitted while another is outstanding.
C13_PacingBetweenBatches ==
  /\ Cardinality(Submissions) = Len(batchLog)
  /\ \A p \in Submissions :
       p > 1 => /\ p > 3
                /\ buildEvents[p - 1] = [event |-> "slept", ms |-> SleepMs]
                /\ buildEvents[p - 2].event = "return"
                /\ buildEvents[p - 3].event = "submit"
  /\ initPc = "embed" => buildEvents[Len(buildEvents)].event = "submit"

\* The third batch of a build has been submitted.
C13_Witness ==
  /\ initPc = "embed"
  /\ Len(batchLog) = MaxBatches
  /\ Cardinality(Submissions) = MaxBatches
  /\ Len(buildEvents) = 3 * (MaxBatches - 1) + 1

\* Every document of the collection has an embedding, all of one length.
SharedDimension(docs) ==
  /\ \A j \in 1..Len(docs) : docs[j].embedding.t = "array"
  /\ \A j \in 1..Len(docs) : \A m \in 1..Len(docs) :
       Len(docs[j].embedding.v) = Len(docs[m].embedding.v)

\* C14: the corpus initializeDocuments has installed, loaded from the cache
\* file or built, holds only documents with an embedding, all embeddings of
\* one shared length.
C14_InstalledCorpusSharesDimension ==
  initPc = "done"
    => /\ cachedDocuments.t = "array"
       /\ SharedDimension(cachedDocuments.v)

\* C14 for the corpus a build installs, where it holds: the embeddings come
\* from one provider model.
C14_HoldsAfterBuild ==
  (initPc = "done" /\ loadResult.t = "null")
    => /\ cachedDocuments.t = "array"
       /\ SharedDimension(cachedDocuments.v)

\* A request is suspended in cohere.embed: when the call resolves, the handler
\* reads cachedDocuments as it is then.
RequestCanRead == process = "running" /\ reqPc = "embed"
\* The collection initializeDocuments installs: the one loaded, or the one built.
InstalledCollection ==
  IF loadResult.t = "array" THEN loadResult ELSE JsArray(documents)

\* C15: whenever a request handler can read cachedDocuments, it holds either
\* the collection of before the load (the empty one) or the complete
\* collection initializeDocuments installs; never null, never a collection
\* still being built.
C15_NoTornCorpus ==
  RequestCanRead
    => \/ cachedDocuments = JsArray(<<>>)
       \/ initPc = "done" /\ cachedDocuments = InstalledCollection

\* The part of C15 the code keeps: a collection a request can read is never
\* one still being built; what it reads other than a collection is null.
C15_NoPartialCollection ==
  (RequestCanRead /\ cachedDocuments # JsNull)
    => \/ cachedDocuments = JsArray(<<>>)
       \/ initPc = "done" /\ cachedDocuments = InstalledCollection

\* A step of the /generate handler.
RequestStep ==
  \/ Generate
  \/ GenerateEmbedOk
  \/ GenerateEmbedFail
  \/ GenerateChatOk
  \/ GenerateChatFail
  \/ GenerateReturn
\* A request has ranked the corpus as it found it and is being answered from it.
ServingFromCorpus == reqChatCalls > 0

\* C16: once initializeDocuments has installed a corpus, cachedDocuments is not
\* assigned again; no step of a request handler changes the corpus; and no
\* write to the corpus happens once a request is being served from it.
C16_CorpusImmutableOnceServing ==
  [][/\ initPc = "done" => cachedDocuments' = cachedDocuments
     /\ RequestStep => cachedDocuments' = cachedDocuments
     /\ ServingFromCorpus => cachedDocuments' = cachedDocuments]_vars

\* The part of C16 the code keeps: after the install there is no assignment,
\* and getTopKDocuments sorts its own array of {doc, score}, not the corpus.
C16_ImmutableOnceInstalled ==
  [][/\ initPc = "done" => cachedDocuments' = cachedDocuments
     /\ RequestStep => cachedDocuments' = cachedDocuments]_vars

\* C17: after an embed call of the build or the write of the cache file has
\* failed, the process is still running (and so accepts and answers requests).
C17_BuildFailureKeepsProcess ==
  initPc \in {"embedFailed", "saveFailed"} => process = "running"

\* initializeDocuments is suspended in cohere.embed or in sleep.
BuildSuspended == process = "running" /\ initPc \in {"embed", "sleep"}

\* C18: while the build is suspended in an embed call or in a pacing sleep,
\* a request can arrive and each of its steps up to the response can run
\* without the build moving; and no step of a request moves the build.
C18_PacingDoesNotBlockRequests ==
  /\ [](BuildSuspended
          => /\ (reqPc = "idle" /\ served < MaxRequests) => ENABLED Generate
             /\ reqPc = "embed" => ENABLED GenerateEmbedOk
             /\ reqPc = "chat" => ENABLED GenerateChatOk
             /\ reqPc = "responded" => ENABLED GenerateReturn)
  /\ [][RequestStep => UNCHANGED <<initPc, buildEvents>>]_vars

\* A request has been answered (from the corpus as the build left it, null)
\* while the build is in the sleep after its first batch.
C18_Witness ==
  /\ initPc = "sleep"
  /\ Len(batchLog) = 1
  /\ reqPc = "responded"
  /\ prompt = JsString("Where should I travel?")
  /\ rankThrew
  /\ response = ErrorResponse(500, "Cohere request failed")

(***************************************************************************)
(* Claims about readiness (SpecFair).                                      *)
(***************************************************************************)
\* cachedDocuments holds the complete collection initializeDocuments installs.
CorpusReady ==
  /\ initPc = "done"
  /\ cachedDocuments.t = "array"
  /\ cachedDocuments = InstalledCollection
\* initializeDocuments has rejected: an embed call or the cache write failed,
\* or making the texts of a batch or attaching the embeddings threw.  The
\* provider returns one vector per text (EmbedResponse), so the forEach that
\* attaches the embeddings finds a document for each of them and the build
\* does not fail there.
BuildFailed ==
  initPc \in {"embedFailed", "textFailed", "attachFailed", "saveFailed"}

\* C20: under fair scheduling the build settles, the corpus being ready or
\* the build failed, and stays so: a ready corpus stays ready for ever, a
\* failed build stays failed (it is not retried, so the corpus is never ready
\* after it).  A build whose embed calls all succeeded and whose cache write
\* succeeded is ready, and no failed build has written the cache; a valid
\* cache file is ready as soon as it is loaded; and loadDocuments, the start
\* of a build, runs at most once.
C20_ReadinessProgress ==
  /\ <>[](CorpusReady \/ BuildFailed)
  /\ [][CorpusReady => CorpusReady']_vars
  /\ [][BuildFailed => BuildFailed' /\ ~CorpusReady']_vars
  /\ []((embedFailures = 0 /\ fileWrites > 0) => CorpusReady)
  /\ [](BuildFailed => fileWrites = 0)
  /\ []((fileWrites = 0 /\ CompleteCache(cacheFile) /\ initPc # "loadCache")
          => CorpusReady)
  /\ [](loadDocumentsCalls <= 1)

\* A corpus of more than one batch has been built and installed, and requests
\* have been served since.
C20_Witness ==
  /\ CorpusReady
  /\ loadResult.t = "null"
  /\ Len(cachedDocuments.v) > BatchSize
  /\ served = MaxRequests
  /\ reqPc = "idle"

=============================================================================
